---- MODULE Spec2Model ----
(***************************************************************************)
(* Persistence layer of the intent service: the Goal repository            *)
(* (CreateGoal, GetGoal, UpdateGoal, DeleteGoal over the goals table), the *)
(* goals HTTP handlers that call it, and the list-value normalizer.        *)
(*                                                                         *)
(* Go values are modelled as follows.                                      *)
(*   string     a sequence of one-character strings, <<" ", "a">>          *)
(*   []string   a record [nil, elems]: Go tells a nil slice from an empty  *)
(*              one, and json.Marshal writes them differently              *)
(*   JSON       a record [kind, elems], kind "null" or "array"             *)
(*   time.Time  nanoseconds on the wall clock (an integer)                 *)
(*   uuid.UUID  a positive integer, 0 for uuid.Nil                         *)
(*   error      a string: "nil", "ErrNilDB", "ErrExec", "ErrNoRows",       *)
(*              "ErrUnmarshal"                                             *)
(***************************************************************************)
EXTENDS Integers, Sequences, FiniteSets, TLC

VARIABLES goals, nextId, clock, last, normIn, normOut, normAgain, normStage,
          list, hlist, intents, ilast, xgoals, xlast

vars == <<goals, nextId, clock, last, normIn, normOut, normAgain, normStage,
          list, hlist, intents, ilast, xgoals, xlast>>

storeVars == <<goals, nextId, clock, last>>

normVars == <<normIn, normOut, normAgain, normStage>>

\* The ListGoals call in progress or just returned, and the request to the
\* list handler that has just been answered.
listVars == <<list, hlist>>

\* The intents table and the intent call that has just returned.
intentVars == <<intents, ilast>>

\* The goals table of the extended schema (guardrails, decision_rights) and
\* the call on it that has just returned.
extVars == <<xgoals, xlast>>

(***************************************************************************)
(* Bounds of the model.                                                    *)
(***************************************************************************)
\* Number of goals ever inserted in one behaviour.
MaxGoals == 1

\* Last wall-clock reading, in nanoseconds.
MaxClock == 2000

\* Longest sequence handed to the normalizer.
MaxValues == 4

\* Rows in the goals table when a ListGoals call starts.
MaxRows == 3

\* Intents CreateIntent inserts in one behaviour.
MaxIntents == 2

\* Goals of the extended schema inserted in one behaviour.
MaxExtGoals == 2

(***************************************************************************)
(* strings                                                                 *)
(***************************************************************************)
IsSpace(c) == c \in {" ", "\t"}

LowerChar(c) ==
    CASE c = "A" -> "a"
      [] c = "B" -> "b"
      [] c = "X" -> "x"
      [] OTHER -> c

ToLower(s) == [i \in DOMAIN s |-> LowerChar(s[i])]

RECURSIVE TrimLeft(_)
TrimLeft(s) ==
    IF Len(s) > 0 /\ IsSpace(Head(s)) THEN TrimLeft(Tail(s)) ELSE s

RECURSIVE TrimRight(_)
TrimRight(s) ==
    IF Len(s) > 0 /\ IsSpace(s[Len(s)])
    THEN TrimRight(SubSeq(s, 1, Len(s) - 1))
    ELSE s

TrimSpace(s) == TrimRight(TrimLeft(s))

(***************************************************************************)
(* slices                                                                  *)
(***************************************************************************)
NilSlice == [nil |-> TRUE, elems |-> <<>>]

Slice(s) == [nil |-> FALSE, elems |-> s]

(***************************************************************************)
(* The list-value normalizer.  The loop carries (i, cleaned, seen) as the  *)
(* Go loop does: trim, skip the empty, skip a key already seen, else mark  *)
(* the key and append the trimmed value.                                   *)
(***************************************************************************)
\* Faulty loop: the key is taken from the value before it is trimmed.
RECURSIVE goalValuesLoop_KeyUntrimmed(_, _, _, _)
goalValuesLoop_KeyUntrimmed(values, i, cleaned, seen) ==
    IF i > Len(values) THEN cleaned
    ELSE LET trimmed == TrimSpace(values[i])
             key     == ToLower(values[i])
         IN  IF trimmed = <<>>
             THEN goalValuesLoop_KeyUntrimmed(values, i + 1, cleaned, seen)
             ELSE IF key \in seen
             THEN goalValuesLoop_KeyUntrimmed(values, i + 1, cleaned, seen)
             ELSE goalValuesLoop_KeyUntrimmed(values, i + 1,
                      Append(cleaned, trimmed), seen \cup {key})

\* Faulty loop: a value seen again replaces the casing kept before.
RECURSIVE goalValuesLoop_KeepLast(_, _, _, _)
goalValuesLoop_KeepLast(values, i, cleaned, seen) ==
    IF i > Len(values) THEN cleaned
    ELSE LET trimmed == TrimSpace(values[i])
             key     == ToLower(trimmed)
         IN  IF trimmed = <<>>
             THEN goalValuesLoop_KeepLast(values, i + 1, cleaned, seen)
             ELSE IF key \in seen
             THEN goalValuesLoop_KeepLast(values, i + 1,
                      [j \in DOMAIN cleaned |->
                          IF ToLower(cleaned[j]) = key THEN trimmed
                          ELSE cleaned[j]], seen)
             ELSE goalValuesLoop_KeepLast(values, i + 1,
                      Append(cleaned, trimmed), seen \cup {key})

\* for _, value := range values { ... }
RECURSIVE goalValuesLoop(_, _, _, _)
goalValuesLoop(values, i, cleaned, seen) ==
    IF i > Len(values) THEN cleaned
    ELSE LET trimmed == TrimSpace(values[i])
             key     == ToLower(trimmed)
         IN  IF trimmed = <<>>
             THEN goalValuesLoop(values, i + 1, cleaned, seen)
             ELSE IF key \in seen
             THEN goalValuesLoop(values, i + 1, cleaned, seen)
             ELSE goalValuesLoop(values, i + 1,
                      Append(cleaned, trimmed), seen \cup {key})

\* Faulty normalizer: trims and drops the blank, keeps duplicates.
normalizeGoalValues_NoDedup(values) ==
    IF Len(values.elems) = 0 THEN Slice(<<>>)
    ELSE Slice(SelectSeq([i \in DOMAIN values.elems |->
                             TrimSpace(values.elems[i])],
                         LAMBDA v : v # <<>>))

normalizeGoalValues(values) ==
    IF Len(values.elems) = 0 THEN Slice(<<>>)
    ELSE Slice(goalValuesLoop(values.elems, 1, <<>>, {}))

RECURSIVE collaboratorsLoop(_, _, _, _)
collaboratorsLoop(collaborators, i, cleaned, seen) ==
    IF i > Len(collaborators) THEN cleaned
    ELSE LET trimmed == TrimSpace(collaborators[i])
             key     == ToLower(trimmed)
         IN  IF trimmed = <<>>
             THEN collaboratorsLoop(collaborators, i + 1, cleaned, seen)
             ELSE IF key \in seen
             THEN collaboratorsLoop(collaborators, i + 1, cleaned, seen)
             ELSE collaboratorsLoop(collaborators, i + 1,
                      Append(cleaned, trimmed), seen \cup {key})

normalizeCollaborators(collaborators) ==
    IF Len(collaborators.elems) = 0 THEN Slice(<<>>)
    ELSE Slice(collaboratorsLoop(collaborators.elems, 1, <<>>, {}))

(***************************************************************************)
(* Inputs of the normalizer: nil, and every sequence of at most MaxValues  *)
(* of these strings (blank, padded, and the same word in two casings).     *)
(***************************************************************************)
NormStrings ==
    { <<>>, <<" ">>, <<"a">>, <<"A">>, <<" ", "a", " ">>, <<"b">>,
      <<"\t", "B">> }

SeqsUpTo(S, n) == UNION { [1..k -> S] : k \in 0..n }

NormInputs == {NilSlice} \cup { Slice(s) : s \in SeqsUpTo(NormStrings, MaxValues) }

NoOutput == [goal |-> NilSlice, collab |-> NilSlice]

\* normalizeGoalValues and normalizeCollaborators applied to the input.
Normalize ==
    /\ normStage = 0
    /\ normOut' = [goal   |-> normalizeGoalValues(normIn),
                   collab |-> normalizeCollaborators(normIn)]
    /\ normStage' = 1
    /\ UNCHANGED <<normIn, normAgain, storeVars, listVars, intentVars, extVars>>

\* The normalizers applied to their own output.
NormalizeAgain ==
    /\ normStage = 1
    /\ normAgain' = [goal   |-> normalizeGoalValues(normOut.goal),
                     collab |-> normalizeCollaborators(normOut.collab)]
    /\ normStage' = 2
    /\ UNCHANGED <<normIn, normOut, storeVars, listVars, intentVars, extVars>>

(***************************************************************************)
(* encoding/json on a []string, and the timestamp a TIMESTAMPTZ column     *)
(* keeps.                                                                  *)
(***************************************************************************)
JNull == [kind |-> "null", elems |-> <<>>]

JArray(s) == [kind |-> "array", elems |-> s]

\* A JSON value that is neither null nor an array of strings; a JSONB column
\* admits it, json.Unmarshal into a []string rejects it.
JObject == [kind |-> "object", elems |-> <<>>]

\* json.Marshal of a nil slice is null, of any other slice an array.
jsonMarshal(values) ==
    IF values.nil THEN JNull ELSE JArray(values.elems)

\* json.Unmarshal(raw, &dest): null leaves dest as it is, an array of
\* strings replaces it with a non-nil slice.
jsonUnmarshal(raw, dest) ==
    IF raw.kind = "null" THEN dest ELSE Slice(raw.elems)

\* Whether json.Unmarshal(raw, &dest) returns an error.
jsonUnmarshalFails(raw) == raw.kind \notin {"null", "array"}

\* A TIMESTAMPTZ holds microseconds; pgx sends Unix()*1000000 +
\* Nanosecond()/1000, so the nanoseconds below a microsecond are dropped.
NanosPerMicro == 1000

StoreTimestamp(t) == t - (t % NanosPerMicro)

(***************************************************************************)
(* Goal, GoalInput and the rows of the goals table.                        *)
(***************************************************************************)
NilUUID == 0

ZeroTime == 0

ZeroGoal ==
    [ID |-> NilUUID, Title |-> <<>>, ClarityStatement |-> <<>>,
     Constraints |-> NilSlice, SuccessCriteria |-> NilSlice,
     CreatedAt |-> ZeroTime, UpdatedAt |-> ZeroTime]

ZeroGoalInput ==
    [Title |-> <<>>, ClarityStatement |-> <<>>,
     Constraints |-> NilSlice, SuccessCriteria |-> NilSlice]

\* Identifiers a caller may name: those CreateGoal hands out, and one more
\* that no goal ever has.
Ids == 1..(MaxGoals + 1)

\* The connection of one call: a nil *sql.DB, a statement that executes, a
\* statement that fails (network, cancelled context, constraint).
ConnStates == {"nil", "ok", "fail"}

\* The wall clock moves in steps of half a microsecond.
ClockStep == NanosPerMicro \div 2

\* The inputs the callers hand in: zero-value tag sets; padded text with an
\* untrimmed, a case-duplicate and an empty tag; a blank title.
GoalInputs ==
    { [Title |-> <<"a">>, ClarityStatement |-> <<"b">>,
       Constraints |-> NilSlice, SuccessCriteria |-> NilSlice],
      [Title |-> <<" ", "a">>, ClarityStatement |-> <<"B", " ">>,
       Constraints |-> Slice(<< <<" ", "x", " ">>, <<"X">>, <<>> >>),
       SuccessCriteria |-> Slice(<<>>)],
      [Title |-> <<" ">>, ClarityStatement |-> <<"b">>,
       Constraints |-> Slice(<< <<"x">> >>),
       SuccessCriteria |-> Slice(<< <<"b">> >>)] }

RowsWithID(rows, id) == { r \in rows : r.id = id }

\* Faulty INSERT statement: updated_at is left to the zero time.
InsertGoal_ZeroUpdatedAt(rows, id, title, clarity, constraintsJSON, successJSON, created, updated) ==
    rows \cup { [id |-> id, title |-> title, clarity_statement |-> clarity,
                 constraints |-> constraintsJSON,
                 success_criteria |-> successJSON,
                 created_at |-> StoreTimestamp(created),
                 updated_at |-> ZeroTime] }

\* INSERT INTO goals (...) VALUES ($1, ..., $7)
InsertGoal(rows, id, title, clarity, constraintsJSON, successJSON, created, updated) ==
    rows \cup { [id |-> id, title |-> title, clarity_statement |-> clarity,
                 constraints |-> constraintsJSON,
                 success_criteria |-> successJSON,
                 created_at |-> StoreTimestamp(created),
                 updated_at |-> StoreTimestamp(updated)] }

\* Faulty UPDATE statements: one that also sets created_at, one that leaves
\* success_criteria out, one that leaves updated_at out, one that inserts
\* the row when no row matches.
UpdateGoalRows_TouchCreatedAt(rows, id, title, clarity, constraintsJSON, successJSON, updated) ==
    { IF r.id = id
      THEN [r EXCEPT !.title = title, !.clarity_statement = clarity,
                     !.constraints = constraintsJSON,
                     !.success_criteria = successJSON,
                     !.created_at = StoreTimestamp(updated),
                     !.updated_at = StoreTimestamp(updated)]
      ELSE r : r \in rows }

UpdateGoalRows_KeepSuccess(rows, id, title, clarity, constraintsJSON, successJSON, updated) ==
    { IF r.id = id
      THEN [r EXCEPT !.title = title, !.clarity_statement = clarity,
                     !.constraints = constraintsJSON,
                     !.updated_at = StoreTimestamp(updated)]
      ELSE r : r \in rows }

UpdateGoalRows_KeepUpdatedAt(rows, id, title, clarity, constraintsJSON, successJSON, updated) ==
    { IF r.id = id
      THEN [r EXCEPT !.title = title, !.clarity_statement = clarity,
                     !.constraints = constraintsJSON,
                     !.success_criteria = successJSON]
      ELSE r : r \in rows }

UpdateGoalRows_Upsert(rows, id, title, clarity, constraintsJSON, successJSON, updated) ==
    IF RowsWithID(rows, id) = {}
    THEN InsertGoal(rows, id, title, clarity, constraintsJSON, successJSON,
                    updated, updated)
    ELSE { IF r.id = id
           THEN [r EXCEPT !.title = title, !.clarity_statement = clarity,
                          !.constraints = constraintsJSON,
                          !.success_criteria = successJSON,
                          !.updated_at = StoreTimestamp(updated)]
           ELSE r : r \in rows }

\* UPDATE goals SET title = $1, ..., updated_at = $5 WHERE id = $6
UpdateGoalRows(rows, id, title, clarity, constraintsJSON, successJSON, updated) ==
    { IF r.id = id
      THEN [r EXCEPT !.title = title, !.clarity_statement = clarity,
                     !.constraints = constraintsJSON,
                     !.success_criteria = successJSON,
                     !.updated_at = StoreTimestamp(updated)]
      ELSE r : r \in rows }

\* Faulty DELETE statement: one without its WHERE.
DeleteGoalRows_All(rows, id) == {}

\* DELETE FROM goals WHERE id = $1
DeleteGoalRows(rows, id) == { r \in rows : r.id # id }

\* Scan of one row into a Goal, then json.Unmarshal of the two tag columns.
ScanGoal(r) ==
    [ID |-> r.id, Title |-> r.title, ClarityStatement |-> r.clarity_statement,
     Constraints |-> jsonUnmarshal(r.constraints, NilSlice),
     SuccessCriteria |-> jsonUnmarshal(r.success_criteria, NilSlice),
     CreatedAt |-> r.created_at, UpdatedAt |-> r.updated_at]

\* The statements a call has issued when it returns err: none when the
\* handle is nil, else the one statement of the function.
Issued(err) == IF err = "ErrNilDB" THEN 0 ELSE 1

Failed(rows, err) ==
    [rows |-> rows, err |-> err, goal |-> ZeroGoal, stmts |-> Issued(err)]

\* Whether the tag columns of a row scan into a Goal.
ScanFails(r) ==
    jsonUnmarshalFails(r.constraints) \/ jsonUnmarshalFails(r.success_criteria)

(***************************************************************************)
(* The repository functions, as functions of the table: each returns the   *)
(* table after the call, the error and the Goal returned.                  *)
(***************************************************************************)
\* Faulty CreateGoal: no check of the handle, the statement is issued on it.
CreateGoalCall_NoNilCheck(rows, conn, input, now, id) ==
    IF conn = "nil" \/ conn = "fail" THEN Failed(rows, "ErrExec")
    ELSE [rows |-> InsertGoal(rows, id, input.Title, input.ClarityStatement,
                              jsonMarshal(input.Constraints),
                              jsonMarshal(input.SuccessCriteria), now, now),
          err  |-> "nil", stmts |-> 1,
          goal |-> [ID |-> id, Title |-> input.Title,
                    ClarityStatement |-> input.ClarityStatement,
                    Constraints |-> input.Constraints,
                    SuccessCriteria |-> input.SuccessCriteria,
                    CreatedAt |-> now, UpdatedAt |-> now]]

CreateGoalCall(rows, conn, input, now, id) ==
    IF conn = "nil" THEN Failed(rows, "ErrNilDB")
    ELSE IF conn = "fail" THEN Failed(rows, "ErrExec")
    ELSE [rows |-> InsertGoal(rows, id, input.Title, input.ClarityStatement,
                              jsonMarshal(input.Constraints),
                              jsonMarshal(input.SuccessCriteria), now, now),
          err  |-> "nil", stmts |-> 1,
          goal |-> [ID |-> id, Title |-> input.Title,
                    ClarityStatement |-> input.ClarityStatement,
                    Constraints |-> input.Constraints,
                    SuccessCriteria |-> input.SuccessCriteria,
                    CreatedAt |-> now, UpdatedAt |-> now]]

\* Faulty GetGoal: the error of a Scan that found no row is replaced by a
\* generic failure.
GetGoalCall_NotFoundAsExec(rows, conn, id) ==
    IF conn = "nil" THEN Failed(rows, "ErrNilDB")
    ELSE IF conn = "fail" THEN Failed(rows, "ErrExec")
    ELSE IF RowsWithID(rows, id) = {} THEN Failed(rows, "ErrExec")
    ELSE LET r == CHOOSE r \in RowsWithID(rows, id) : TRUE
         IN  IF ScanFails(r) THEN Failed(rows, "ErrUnmarshal")
             ELSE [rows |-> rows, err |-> "nil", stmts |-> 1,
                   goal |-> ScanGoal(r)]

GetGoalCall(rows, conn, id) ==
    IF conn = "nil" THEN Failed(rows, "ErrNilDB")
    ELSE IF conn = "fail" THEN Failed(rows, "ErrExec")
    ELSE IF RowsWithID(rows, id) = {} THEN Failed(rows, "ErrNoRows")
    ELSE LET r == CHOOSE r \in RowsWithID(rows, id) : TRUE
         IN  IF ScanFails(r) THEN Failed(rows, "ErrUnmarshal")
             ELSE [rows |-> rows, err |-> "nil", stmts |-> 1,
                   goal |-> ScanGoal(r)]

\* Faulty UpdateGoal: a statement that failed is issued a second time.
UpdateGoalCall_Retry(rows, conn, id, input, now) ==
    IF conn = "nil" THEN Failed(rows, "ErrNilDB")
    ELSE LET after == UpdateGoalRows(rows, id, input.Title,
                          input.ClarityStatement,
                          jsonMarshal(input.Constraints),
                          jsonMarshal(input.SuccessCriteria), now)
             returning == RowsWithID(after, id)
             issued == IF conn = "fail" THEN 2 ELSE 1
         IN  IF returning = {}
             THEN [Failed(after, "ErrNoRows") EXCEPT !.stmts = issued]
             ELSE [rows |-> after, err |-> "nil", stmts |-> issued,
                   goal |-> ScanGoal(CHOOSE r \in returning : TRUE)]

\* Faulty UpdateGoal: an UPDATE that returned no row is reported as done.
UpdateGoalCall_NoRowsAsDone(rows, conn, id, input, now) ==
    IF conn = "nil" THEN Failed(rows, "ErrNilDB")
    ELSE IF conn = "fail" THEN Failed(rows, "ErrExec")
    ELSE LET after == UpdateGoalRows(rows, id, input.Title,
                          input.ClarityStatement,
                          jsonMarshal(input.Constraints),
                          jsonMarshal(input.SuccessCriteria), now)
             returning == RowsWithID(after, id)
         IN  IF returning = {} THEN Failed(after, "nil")
             ELSE [rows |-> after, err |-> "nil", stmts |-> 1,
                   goal |-> ScanGoal(CHOOSE r \in returning : TRUE)]

UpdateGoalCall(rows, conn, id, input, now) ==
    IF conn = "nil" THEN Failed(rows, "ErrNilDB")
    ELSE IF conn = "fail" THEN Failed(rows, "ErrExec")
    ELSE LET after == UpdateGoalRows(rows, id, input.Title,
                          input.ClarityStatement,
                          jsonMarshal(input.Constraints),
                          jsonMarshal(input.SuccessCriteria), now)
             returning == RowsWithID(after, id)
         IN  IF returning = {} THEN Failed(after, "ErrNoRows")
             ELSE [rows |-> after, err |-> "nil", stmts |-> 1,
                   goal |-> ScanGoal(CHOOSE r \in returning : TRUE)]

\* Faulty DeleteGoal: RowsAffected is not looked at.
DeleteGoalCall_NoCount(rows, conn, id) ==
    IF conn = "nil" THEN Failed(rows, "ErrNilDB")
    ELSE IF conn = "fail" THEN Failed(rows, "ErrExec")
    ELSE Failed(DeleteGoalRows(rows, id), "nil")

DeleteGoalCall(rows, conn, id) ==
    IF conn = "nil" THEN Failed(rows, "ErrNilDB")
    ELSE IF conn = "fail" THEN Failed(rows, "ErrExec")
    ELSE LET after    == DeleteGoalRows(rows, id)
             affected == Cardinality(rows \ after)
         IN  IF affected = 0 THEN Failed(after, "ErrNoRows")
             ELSE Failed(after, "nil")

(***************************************************************************)
(* The calls.  last records the call that has just returned: the function, *)
(* the identifier it was about, the payload a handler decoded, the         *)
(* GoalInput handed to the repository, the connection, and what came back. *)
(***************************************************************************)
NoCall ==
    [op |-> "none", id |-> NilUUID, payload |-> ZeroGoalInput,
     input |-> ZeroGoalInput, conn |-> "ok", err |-> "nil",
     goal |-> ZeroGoal, status |-> 0, stmts |-> 0]

CreateGoal(input, conn) ==
    /\ nextId <= MaxGoals
    /\ LET now == clock
           res == CreateGoalCall(goals, conn, input, now, nextId)
       IN  /\ goals' = res.rows
           /\ nextId' = IF res.err = "nil" THEN nextId + 1 ELSE nextId
           /\ last' = [op |-> "CreateGoal", id |-> res.goal.ID,
                       payload |-> ZeroGoalInput, input |-> input,
                       conn |-> conn, err |-> res.err, goal |-> res.goal,
                       status |-> 0, stmts |-> res.stmts]
    /\ UNCHANGED <<clock, normVars, listVars, intentVars, extVars>>

GetGoal(id, conn) ==
    /\ LET res == GetGoalCall(goals, conn, id)
       IN  /\ goals' = res.rows
           /\ last' = [op |-> "GetGoal", id |-> id,
                       payload |-> ZeroGoalInput, input |-> ZeroGoalInput,
                       conn |-> conn, err |-> res.err, goal |-> res.goal,
                       status |-> 0, stmts |-> res.stmts]
    /\ UNCHANGED <<nextId, clock, normVars, listVars, intentVars, extVars>>

UpdateGoal(id, input, conn) ==
    /\ LET now == clock
           res == UpdateGoalCall(goals, conn, id, input, now)
       IN  /\ goals' = res.rows
           /\ last' = [op |-> "UpdateGoal", id |-> id,
                       payload |-> ZeroGoalInput, input |-> input,
                       conn |-> conn, err |-> res.err, goal |-> res.goal,
                       status |-> 0, stmts |-> res.stmts]
    /\ UNCHANGED <<nextId, clock, normVars, listVars, intentVars, extVars>>

DeleteGoal(id, conn) ==
    /\ LET res == DeleteGoalCall(goals, conn, id)
       IN  /\ goals' = res.rows
           /\ last' = [op |-> "DeleteGoal", id |-> id,
                       payload |-> ZeroGoalInput, input |-> ZeroGoalInput,
                       conn |-> conn, err |-> res.err, goal |-> res.goal,
                       status |-> 0, stmts |-> res.stmts]
    /\ UNCHANGED <<nextId, clock, normVars, listVars, intentVars, extVars>>

(***************************************************************************)
(* The goals HTTP handlers for POST /api/goals and PUT /api/goals/{id}.    *)
(* The payload is the decoded createGoalRequest; its guardrails and        *)
(* decisionRights have no column in the goals table modelled here and are  *)
(* left out.                                                               *)
(***************************************************************************)
\* Faulty validation: the clarity statement is not looked at.
validateGoalPayload_TitleOnly(payload) ==
    IF TrimSpace(payload.Title) = <<>> THEN "title is required"
    ELSE "nil"

validateGoalPayload(payload) ==
    IF TrimSpace(payload.Title) = <<>> THEN "title is required"
    ELSE IF TrimSpace(payload.ClarityStatement) = <<>>
    THEN "clarityStatement is required"
    ELSE "nil"

\* The database.GoalInput the handlers build from a valid payload.
cleanedGoalInput(payload) ==
    [Title |-> TrimSpace(payload.Title),
     ClarityStatement |-> TrimSpace(payload.ClarityStatement),
     Constraints |-> normalizeGoalValues(payload.Constraints),
     SuccessCriteria |-> normalizeGoalValues(payload.SuccessCriteria)]

Rejected(op, id, payload, conn) ==
    [op |-> op, id |-> id, payload |-> payload, input |-> ZeroGoalInput,
     conn |-> conn, err |-> "nil", goal |-> ZeroGoal, status |-> 400,
     stmts |-> 0]

handleCreate(payload, conn) ==
    /\ nextId <= MaxGoals
    /\ IF validateGoalPayload(payload) # "nil"
       THEN /\ last' = Rejected("handleCreate", NilUUID, payload, conn)
            /\ UNCHANGED <<goals, nextId>>
       ELSE LET now   == clock
                input == cleanedGoalInput(payload)
                res   == CreateGoalCall(goals, conn, input, now, nextId)
            IN  /\ goals' = res.rows
                /\ nextId' = IF res.err = "nil" THEN nextId + 1 ELSE nextId
                /\ last' = [op |-> "handleCreate", id |-> res.goal.ID,
                            payload |-> payload, input |-> input,
                            conn |-> conn, err |-> res.err,
                            goal |-> res.goal,
                            status |-> IF res.err = "nil" THEN 201 ELSE 500,
                            stmts |-> res.stmts]
    /\ UNCHANGED <<clock, normVars, listVars, intentVars, extVars>>

\* The {id} path segment of a request: a goal identifier, or text that
\* uuid.Parse rejects.
BadPathID == -1

PathIds == Ids \cup {BadPathID}

handleUpdate(id, payload, conn) ==
    /\ IF id = BadPathID \/ validateGoalPayload(payload) # "nil"
       THEN /\ last' = Rejected("handleUpdate",
                                IF id = BadPathID THEN NilUUID ELSE id,
                                payload, conn)
            /\ UNCHANGED goals
       ELSE LET now   == clock
                input == cleanedGoalInput(payload)
                res   == UpdateGoalCall(goals, conn, id, input, now)
            IN  /\ goals' = res.rows
                /\ last' = [op |-> "handleUpdate", id |-> id,
                            payload |-> payload, input |-> input,
                            conn |-> conn, err |-> res.err,
                            goal |-> res.goal,
                            status |-> IF res.err = "nil" THEN 200
                                       ELSE IF res.err = "ErrNoRows" THEN 404
                                       ELSE 500,
                            stmts |-> res.stmts]
    /\ UNCHANGED <<nextId, clock, normVars, listVars, intentVars, extVars>>

\* Time passes between calls.
Tick ==
    /\ clock + ClockStep <= MaxClock
    /\ clock' = clock + ClockStep
    /\ UNCHANGED <<goals, nextId, last, normVars, listVars, intentVars, extVars>>

(***************************************************************************)
(* ListGoals.  The conditions, their placeholders and the bound arguments  *)
(* are built as the code builds them; the two statements are evaluated     *)
(* through the placeholders, each against the table as it is when the      *)
(* statement runs.                                                         *)
(***************************************************************************)
\* A *time.Time filter: nil, or a time.
NilTime == [nil |-> TRUE, t |-> ZeroTime]

TimePtr(t) == [nil |-> FALSE, t |-> t]

\* A bound argument: the pattern of the search, a time, or an int.
Arg(role, str, n) == [role |-> role, str |-> str, n |-> n]

\* One condition of the WHERE clause (or LIMIT / OFFSET) with the numbers of
\* the placeholders it is written with, in the order they appear.
Cond(kind, ph) == [kind |-> kind, ph |-> ph]

NoConditions == [conditions |-> <<>>, args |-> <<>>, param |-> 1]

\* fmt.Sprintf("%%%s%%", filters.Query)
Pattern(query) == <<"%">> \o query \o <<"%">>

\* Faulty builder: the search group counts as one parameter.
withQuery_ParamPlusOne(b, filters) ==
    IF TrimSpace(filters.Query) # <<>>
    THEN [conditions |-> Append(b.conditions,
                            Cond("search", <<b.param, b.param + 1, b.param + 2>>)),
          args  |-> b.args \o << Arg("pattern", Pattern(filters.Query), 0),
                                 Arg("pattern", Pattern(filters.Query), 0),
                                 Arg("pattern", Pattern(filters.Query), 0) >>,
          param |-> b.param + 1]
    ELSE b

\* Faulty builder: the search term is also written into the text of the
\* condition.
withQuery_Interpolated(b, filters) ==
    IF TrimSpace(filters.Query) # <<>>
    THEN [conditions |-> Append(b.conditions,
                            [kind |-> "search",
                             ph   |-> <<b.param, b.param + 1, b.param + 2>>,
                             lit  |-> filters.Query]),
          args  |-> b.args \o << Arg("pattern", Pattern(filters.Query), 0),
                                 Arg("pattern", Pattern(filters.Query), 0),
                                 Arg("pattern", Pattern(filters.Query), 0) >>,
          param |-> b.param + 3]
    ELSE b

\* if strings.TrimSpace(filters.Query) != "" { ... param += 3 }
withQuery(b, filters) ==
    IF TrimSpace(filters.Query) # <<>>
    THEN [conditions |-> Append(b.conditions,
                            Cond("search", <<b.param, b.param + 1, b.param + 2>>)),
          args  |-> b.args \o << Arg("pattern", Pattern(filters.Query), 0),
                                 Arg("pattern", Pattern(filters.Query), 0),
                                 Arg("pattern", Pattern(filters.Query), 0) >>,
          param |-> b.param + 3]
    ELSE b

\* if filters.CreatedAfter != nil { ... param++ }
withCreatedAfter(b, filters) ==
    IF ~filters.CreatedAfter.nil
    THEN [conditions |-> Append(b.conditions, Cond("created_at >=", <<b.param>>)),
          args  |-> Append(b.args, Arg("time", <<>>, filters.CreatedAfter.t)),
          param |-> b.param + 1]
    ELSE b

\* if filters.CreatedBefore != nil { ... param++ }
withCreatedBefore(b, filters) ==
    IF ~filters.CreatedBefore.nil
    THEN [conditions |-> Append(b.conditions, Cond("created_at <=", <<b.param>>)),
          args  |-> Append(b.args, Arg("time", <<>>, filters.CreatedBefore.t)),
          param |-> b.param + 1]
    ELSE b

\* conditions, args and param after the three filter blocks.
whereClause(filters) ==
    withCreatedBefore(withCreatedAfter(withQuery(NoConditions, filters), filters),
                      filters)

\* "SELECT COUNT(*) FROM goals" + whereClause, with args
\* Faulty COUNT statement: issued without the arguments of the filters.
countQuery_NoArgs(filters) ==
    [conditions |-> whereClause(filters).conditions,
     tail       |-> <<>>,
     args       |-> <<>>]

countQuery(filters) ==
    [conditions |-> whereClause(filters).conditions,
     tail       |-> <<>>,
     args       |-> whereClause(filters).args]

\* Faulty LIMIT block: param is not advanced.
withLimit_NoAdvance(q, pagination) ==
    IF pagination.Limit > 0
    THEN [tail  |-> Append(q.tail, Cond("LIMIT", <<q.param>>)),
          args  |-> Append(q.args, Arg("int", <<>>, pagination.Limit)),
          param |-> q.param]
    ELSE q

\* if pagination.Limit > 0 { ... param++ }
withLimit(q, pagination) ==
    IF pagination.Limit > 0
    THEN [tail  |-> Append(q.tail, Cond("LIMIT", <<q.param>>)),
          args  |-> Append(q.args, Arg("int", <<>>, pagination.Limit)),
          param |-> q.param + 1]
    ELSE q

\* if pagination.Offset > 0 { ... }
withOffset(q, pagination) ==
    IF pagination.Offset > 0
    THEN [tail  |-> Append(q.tail, Cond("OFFSET", <<q.param>>)),
          args  |-> Append(q.args, Arg("int", <<>>, pagination.Offset)),
          param |-> q.param + 1]
    ELSE q

\* Faulty page query: built without the WHERE clause of the COUNT query.
listQuery_NoWhere(filters, pagination) ==
    LET t == withOffset(withLimit([tail |-> <<>>, args |-> <<>>, param |-> 1],
                                  pagination), pagination)
    IN  [conditions |-> <<>>, tail |-> t.tail, args |-> t.args]

\* "SELECT ... FROM goals" + whereClause + " ORDER BY created_at DESC" with
\* the optional LIMIT and OFFSET, and listArgs
listQuery(filters, pagination) ==
    LET w == whereClause(filters)
        t == withOffset(withLimit([tail |-> <<>>, args |-> w.args,
                                   param |-> w.param], pagination), pagination)
    IN  [conditions |-> w.conditions, tail |-> t.tail, args |-> t.args]

RECURSIVE Flatten(_)
Flatten(seqs) ==
    IF seqs = <<>> THEN <<>> ELSE Head(seqs) \o Flatten(Tail(seqs))

\* The placeholder numbers of a query in the order they appear in its text.
Placeholders(q) ==
    Flatten([i \in DOMAIN q.conditions |-> q.conditions[i].ph])
    \o Flatten([i \in DOMAIN q.tail |-> q.tail[i].ph])

\* The server accepts a statement whose placeholders are $1..$n for the n
\* arguments bound.
Prepares(q) ==
    { Placeholders(q)[i] : i \in DOMAIN Placeholders(q) } = 1..Len(q.args)

(***************************************************************************)
(* The statements of ListGoals as the server evaluates them.               *)
(***************************************************************************)
\* s ILIKE p: % matches any run of characters, _ any one character, any
\* other character itself ignoring case.
RECURSIVE ILike(_, _)
ILike(s, p) ==
    IF p = <<>> THEN s = <<>>
    ELSE IF Head(p) = "%"
    THEN ILike(s, Tail(p)) \/ (s # <<>> /\ ILike(Tail(s), p))
    ELSE /\ s # <<>>
         /\ Head(p) = "_" \/ LowerChar(Head(p)) = LowerChar(Head(s))
         /\ ILike(Tail(s), Tail(p))

RECURSIVE JSONElems(_)
JSONElems(elems) ==
    IF elems = <<>> THEN <<>>
    ELSE <<"\"">> \o Head(elems) \o <<"\"">>
         \o (IF Tail(elems) = <<>> THEN <<>> ELSE <<",", " ">>)
         \o JSONElems(Tail(elems))

\* column::text of a JSONB value
JSONText(j) ==
    CASE j.kind = "null"   -> <<"n", "u", "l", "l">>
      [] j.kind = "array"  -> <<"[">> \o JSONElems(j.elems) \o <<"]">>
      [] OTHER             -> <<"{", "}">>

\* A time bound to a placeholder is a timestamptz for the server.
BoundTime(arg) == StoreTimestamp(arg.n)

\* Faulty comparison: created_at > $n for createdAfter.
EvalCond_StrictAfter(r, c, args) ==
    CASE c.kind = "search" ->
            \/ ILike(r.title, args[c.ph[1]].str)
            \/ ILike(r.clarity_statement, args[c.ph[2]].str)
            \/ ILike(JSONText(r.success_criteria), args[c.ph[3]].str)
      [] c.kind = "created_at >=" -> r.created_at > BoundTime(args[c.ph[1]])
      [] c.kind = "created_at <=" -> r.created_at <= BoundTime(args[c.ph[1]])

\* One condition of the WHERE clause on one row.
EvalCond(r, c, args) ==
    CASE c.kind = "search" ->
            \/ ILike(r.title, args[c.ph[1]].str)
            \/ ILike(r.clarity_statement, args[c.ph[2]].str)
            \/ ILike(JSONText(r.success_criteria), args[c.ph[3]].str)
      [] c.kind = "created_at >=" -> r.created_at >= BoundTime(args[c.ph[1]])
      [] c.kind = "created_at <=" -> r.created_at <= BoundTime(args[c.ph[1]])

\* The rows the WHERE clause of q selects: its conditions joined by AND.
Matching(rows, q) ==
    { r \in rows :
        \A i \in DOMAIN q.conditions : EvalCond(r, q.conditions[i], q.args) }

\* ORDER BY created_at DESC: every order of the rows in which created_at
\* never increases; rows with equal created_at come in any order.
DescOrders(S) ==
    { o \in [1..Cardinality(S) -> S] :
        /\ \A i, j \in DOMAIN o : i # j => o[i] # o[j]
        /\ \A i, j \in DOMAIN o : i < j => o[i].created_at >= o[j].created_at }

\* The value bound to the LIMIT or OFFSET of q, or none when q has no such
\* clause.
NoClause == -1

ClauseValue(q, kind) ==
    IF \E i \in DOMAIN q.tail : q.tail[i].kind = kind
    THEN LET i == CHOOSE k \in DOMAIN q.tail : q.tail[k].kind = kind
         IN  q.args[q.tail[i].ph[1]].n
    ELSE NoClause

Min(a, b) == IF a <= b THEN a ELSE b

\* Faulty OFFSET: one row too many is skipped.
LimitOffset_SkipOneMore(o, q) ==
    LET off  == IF ClauseValue(q, "OFFSET") = NoClause THEN 0
                ELSE ClauseValue(q, "OFFSET") + 1
        lim  == ClauseValue(q, "LIMIT")
        rest == SubSeq(o, off + 1, Len(o))
    IN  IF lim = NoClause THEN rest ELSE SubSeq(rest, 1, Min(lim, Len(rest)))

\* OFFSET then LIMIT on the ordered rows.
LimitOffset(o, q) ==
    LET off  == IF ClauseValue(q, "OFFSET") = NoClause THEN 0
                ELSE ClauseValue(q, "OFFSET")
        lim  == ClauseValue(q, "LIMIT")
        rest == SubSeq(o, off + 1, Len(o))
    IN  IF lim = NoClause THEN rest ELSE SubSeq(rest, 1, Min(lim, Len(rest)))

\* GoalListResult{}, and the result of a call: the error, the
\* GoalListResult and the statements issued.
ZeroListResult == [Goals |-> NilSlice, TotalCount |-> 0]

ListFailed(err, stmts) == [err |-> err, result |-> ZeroListResult, stmts |-> stmts]

\* Faulty scan loop: a row that does not scan is skipped.
ScanPage_SkipCorrupt(page, total) ==
    [err    |-> "nil",
     result |-> [Goals |-> Slice([i \in DOMAIN SelectSeq(page, LAMBDA r : ~ScanFails(r))
                                    |-> ScanGoal(SelectSeq(page, LAMBDA r : ~ScanFails(r))[i])]),
                 TotalCount |-> total],
     stmts  |-> 2]

\* for rows.Next() { Scan; json.Unmarshal; goals = append(goals, goal) } and
\* the return: the first row that does not scan ends the call.
ScanPage(page, total) ==
    IF \E i \in DOMAIN page : ScanFails(page[i])
    THEN ListFailed("ErrUnmarshal", 2)
    ELSE [err    |-> "nil",
          result |-> [Goals |-> Slice([i \in DOMAIN page |-> ScanGoal(page[i])]),
                      TotalCount |-> total],
          stmts  |-> 2]

NoFilters == [Query |-> <<>>, CreatedAfter |-> NilTime, CreatedBefore |-> NilTime]

NoPagination == [Limit |-> 0, Offset |-> 0]

\* list while no ListGoals call has been made.
NoList ==
    [pc |-> "idle", filters |-> NoFilters, pagination |-> NoPagination,
     conn |-> "ok", total |-> 0, err |-> "nil", result |-> ZeroListResult,
     stmts |-> 0]

ListReturned(filters, pagination, conn, total, res) ==
    [pc |-> "done", filters |-> filters, pagination |-> pagination,
     conn |-> conn, total |-> total, err |-> res.err, result |-> res.result,
     stmts |-> res.stmts]

\* ListGoals up to and including the COUNT statement: the nil check, the
\* conditions, QueryRowContext(ctx, countQuery, args...).Scan(&total).
ListGoalsCount(filters, pagination, conn) ==
    /\ list.pc = "idle"
    /\ list' =
         IF conn = "nil"
         THEN ListReturned(filters, pagination, conn, 0, ListFailed("ErrNilDB", 0))
         ELSE IF conn = "fail" \/ ~Prepares(countQuery(filters))
         THEN ListReturned(filters, pagination, conn, 0, ListFailed("ErrExec", 1))
         ELSE [pc |-> "counted", filters |-> filters, pagination |-> pagination,
               conn |-> conn,
               total |-> Cardinality(Matching(goals, countQuery(filters))),
               err |-> "nil", result |-> ZeroListResult, stmts |-> 1]
    /\ UNCHANGED <<hlist, storeVars, normVars, intentVars, extVars>>

\* ListGoals from the page statement to the return: QueryContext(ctx,
\* listQuery, listArgs...), the scan loop, rows.Err().
ListGoalsPage(conn) ==
    /\ list.pc = "counted"
    /\ LET q == listQuery(list.filters, list.pagination)
       IN  IF conn = "fail" \/ ~Prepares(q)
           THEN list' = ListReturned(list.filters, list.pagination, conn,
                                     list.total, ListFailed("ErrExec", 2))
           ELSE \E o \in DescOrders(Matching(goals, q)) :
                   list' = ListReturned(list.filters, list.pagination, conn,
                               list.total,
                               ScanPage(LimitOffset(o, q), list.total))
    /\ UNCHANGED <<hlist, storeVars, normVars, intentVars, extVars>>

(***************************************************************************)
(* The list handler of goals (the one of intents computes the pagination   *)
(* in the same way).  A query value is a string; an int is IntBits wide    *)
(* and arithmetic on it wraps around.                                      *)
(***************************************************************************)
\* Width of int in the model; Go's int is 64 bits wide on the platforms the
\* service is built for, and wraps in the same way.
IntBits == 16

MaxInt == 2 ^ (IntBits - 1) - 1

\* The int a Go expression gives for the mathematical value n.
WrapInt(n) ==
    LET m == n % (2 ^ IntBits)
    IN  IF m > MaxInt THEN m - 2 ^ IntBits ELSE m

defaultPageSize == 20

maxPageSize == 100

Digits == {"0", "1", "2", "3", "4", "5", "6", "7", "8", "9"}

DigitValue(c) ==
    CASE c = "0" -> 0 [] c = "1" -> 1 [] c = "2" -> 2 [] c = "3" -> 3
      [] c = "4" -> 4 [] c = "5" -> 5 [] c = "6" -> 6 [] c = "7" -> 7
      [] c = "8" -> 8 [] c = "9" -> 9

RECURSIVE DecimalValue(_)
DecimalValue(ds) ==
    IF ds = <<>> THEN 0
    ELSE 10 * DecimalValue(SubSeq(ds, 1, Len(ds) - 1)) + DigitValue(ds[Len(ds)])

\* strconv.Atoi: an optional sign and decimal digits, nothing else, and a
\* value that an int holds.
Atoi(value) ==
    LET signed == value # <<>> /\ Head(value) \in {"+", "-"}
        ds     == IF signed THEN Tail(value) ELSE value
        n      == IF signed /\ Head(value) = "-" THEN 0 - DecimalValue(ds)
                  ELSE DecimalValue(ds)
    IN  IF ds = <<>> \/ \E i \in DOMAIN ds : ds[i] \notin Digits
        THEN [err |-> TRUE, n |-> 0]
        ELSE IF n > MaxInt \/ n < 0 - MaxInt - 1
        THEN [err |-> TRUE, n |-> 0]
        ELSE [err |-> FALSE, n |-> n]

parsePositiveInt(value, fallback) ==
    IF TrimSpace(value) = <<>> THEN fallback
    ELSE IF Atoi(value).err THEN fallback
    ELSE Atoi(value).n

\* hlist while no request has been made.
NoHandlerList ==
    [op |-> "none", page |-> <<>>, pageSize |-> <<>>, conn |-> "ok",
     pagination |-> NoPagination, status |-> 0,
     items |-> <<>>,
     resp |-> [Page |-> 0, PageSize |-> 0, TotalItems |-> 0, TotalPages |-> 0]]

\* goalsHandler.handleList for a request without q, createdAfter and
\* createdBefore: page and pageSize are parsed, defaulted and capped, the
\* offset is computed, ListGoals is called and the page is reported with
\* the number of pages.
handleList(pageValue, pageSizeValue, conn) ==
    LET p0       == parsePositiveInt(pageValue, 1)
        page     == IF p0 < 1 THEN 1 ELSE p0
        s0       == parsePositiveInt(pageSizeValue, defaultPageSize)
        s1       == IF s0 < 1 THEN defaultPageSize ELSE s0
        pageSize == IF s1 > maxPageSize THEN maxPageSize ELSE s1
        offset   == WrapInt((page - 1) * pageSize)
        pg       == [Limit |-> pageSize, Offset |-> offset]
        q        == listQuery(NoFilters, pg)
        total    == Cardinality(Matching(goals, countQuery(NoFilters)))
    IN  /\ \/ /\ conn = "fail"
              /\ hlist' = [NoHandlerList EXCEPT !.op = "handleList",
                              !.page = pageValue, !.pageSize = pageSizeValue,
                              !.conn = conn, !.pagination = pg, !.status = 500]
           \/ /\ conn = "ok"
              /\ \E o \in DescOrders(Matching(goals, q)) :
                    LET res == ScanPage(LimitOffset(o, q), total)
                        totalPages ==
                            IF res.result.TotalCount > 0 /\ pageSize > 0
                            THEN WrapInt(res.result.TotalCount + pageSize - 1)
                                    \div pageSize
                            ELSE 0
                    IN  hlist' =
                          IF res.err # "nil"
                          THEN [NoHandlerList EXCEPT !.op = "handleList",
                                   !.page = pageValue,
                                   !.pageSize = pageSizeValue, !.conn = conn,
                                   !.pagination = pg, !.status = 500]
                          ELSE [op |-> "handleList", page |-> pageValue,
                                pageSize |-> pageSizeValue, conn |-> conn,
                                pagination |-> pg, status |-> 200,
                                items |-> res.result.Goals.elems,
                                resp |-> [Page |-> page, PageSize |-> pageSize,
                                          TotalItems |-> res.result.TotalCount,
                                          TotalPages |-> totalPages]]
        /\ UNCHANGED <<list, storeVars, normVars, intentVars, extVars>>

(***************************************************************************)
(* The tables and arguments ListGoals is run on.                           *)
(***************************************************************************)
\* Rows as the goals table can hold them: two titles, two creation times
\* (so that rows tie), and a row whose success_criteria is not an array of
\* strings.
ListRowShapes ==
    { [title |-> <<"a">>, clarity_statement |-> <<"b">>,
       constraints |-> JArray(<<>>), success_criteria |-> JArray(<<>>),
       created_at |-> NanosPerMicro],
      [title |-> <<"b">>, clarity_statement |-> <<"b">>,
       constraints |-> JArray(<<>>), success_criteria |-> JArray(<< <<"x">> >>),
       created_at |-> 2 * NanosPerMicro],
      [title |-> <<"a">>, clarity_statement |-> <<"b">>,
       constraints |-> JArray(<<>>), success_criteria |-> JArray(<<>>),
       created_at |-> 2 * NanosPerMicro],
      [title |-> <<"b">>, clarity_statement |-> <<"b">>,
       constraints |-> JNull, success_criteria |-> JObject,
       created_at |-> NanosPerMicro] }

TableOf(shapes) ==
    { [id |-> i, title |-> shapes[i].title,
       clarity_statement |-> shapes[i].clarity_statement,
       constraints |-> shapes[i].constraints,
       success_criteria |-> shapes[i].success_criteria,
       created_at |-> shapes[i].created_at,
       updated_at |-> shapes[i].created_at] : i \in DOMAIN shapes }

ListTables == { TableOf(sh) : sh \in SeqsUpTo(ListRowShapes, MaxRows) }

\* Filters: no search, a blank search, a search in the other case; no
\* bound, a bound between two microseconds, a bound on a microsecond.
ListFilters ==
    [Query : {<<>>, <<" ">>, <<"A">>},
     CreatedAfter : {NilTime, TimePtr(NanosPerMicro + ClockStep),
                     TimePtr(2 * NanosPerMicro)},
     CreatedBefore : {NilTime, TimePtr(NanosPerMicro + ClockStep)}]

ListPaginations == [Limit : 0..2, Offset : 0..1]

\* The one input of the concurrent CreateGoal.
ConcurrentInput ==
    [Title |-> <<"a">>, ClarityStatement |-> <<"b">>,
     Constraints |-> Slice(<<>>), SuccessCriteria |-> Slice(<<>>)]

(***************************************************************************)
(* Intents: CreateIntent as in the source; ListIntents after the two       *)
(* statements its tests expect, run with no writer between them.           *)
(***************************************************************************)
ZeroIntent ==
    [ID |-> NilUUID, Statement |-> <<>>, Context |-> <<>>,
     ExpectedOutcome |-> <<>>, Collaborators |-> NilSlice,
     CreatedAt |-> ZeroTime]

ZeroIntentInput ==
    [Statement |-> <<>>, Context |-> <<>>, ExpectedOutcome |-> <<>>,
     Collaborators |-> NilSlice]

IntentInputs ==
    { [Statement |-> <<"a">>, Context |-> <<"b">>, ExpectedOutcome |-> <<"x">>,
       Collaborators |-> c] :
      c \in {NilSlice, Slice(<< <<"A">> >>), Slice(<< <<"A">>, <<"b">> >>)} }

\* INSERT INTO intents (...) VALUES ($1, ..., $6)
InsertIntent(rows, id, input, collaboratorJSON, created) ==
    rows \cup { [id |-> id, statement |-> input.Statement,
                 context |-> input.Context,
                 expected_outcome |-> input.ExpectedOutcome,
                 collaborators |-> collaboratorJSON,
                 created_at |-> StoreTimestamp(created)] }

IntentFailed(rows, err) ==
    [rows |-> rows, err |-> err, intent |-> ZeroIntent, stmts |-> Issued(err)]

CreateIntentCall(rows, conn, input, now, id) ==
    IF conn = "nil" THEN IntentFailed(rows, "ErrNilDB")
    ELSE IF conn = "fail" THEN IntentFailed(rows, "ErrExec")
    ELSE [rows |-> InsertIntent(rows, id, input,
                                jsonMarshal(input.Collaborators), now),
          err  |-> "nil", stmts |-> 1,
          intent |-> [ID |-> id, Statement |-> input.Statement,
                      Context |-> input.Context,
                      ExpectedOutcome |-> input.ExpectedOutcome,
                      Collaborators |-> input.Collaborators,
                      CreatedAt |-> now]]

\* IntentFilters with the tag-membership value only, and the result of
\* ListIntents.
NoIntentFilters == [Collaborator |-> <<>>]

ZeroIntentList == [Intents |-> NilSlice, TotalCount |-> 0]

NoIntentCall ==
    [op |-> "none", conn |-> "ok", err |-> "nil", input |-> ZeroIntentInput,
     intent |-> ZeroIntent, filters |-> NoIntentFilters,
     pagination |-> NoPagination, result |-> ZeroIntentList, stmts |-> 0,
     payload |-> ZeroIntentInput, status |-> 0]

CreateIntent(input, conn) ==
    /\ Cardinality(intents) < MaxIntents
    /\ LET res == CreateIntentCall(intents, conn, input, clock,
                                   Cardinality(intents) + 1)
       IN  /\ intents' = res.rows
           /\ ilast' = [NoIntentCall EXCEPT !.op = "CreateIntent",
                           !.conn = conn, !.err = res.err, !.input = input,
                           !.intent = res.intent, !.stmts = res.stmts]
    /\ UNCHANGED <<storeVars, normVars, listVars, extVars>>

\* The intents handler: validateIntentPayload, and handleCreate, which
\* answers 400 before any repository call when a required text is blank
\* and else hands the trimmed texts and the normalized collaborators to
\* CreateIntent.
validateIntentPayload(payload) ==
    IF TrimSpace(payload.Statement) = <<>> THEN "statement is required"
    ELSE IF TrimSpace(payload.Context) = <<>> THEN "context is required"
    ELSE IF TrimSpace(payload.ExpectedOutcome) = <<>>
    THEN "expectedOutcome is required"
    ELSE "nil"

cleanedIntentInput(payload) ==
    [Statement |-> TrimSpace(payload.Statement),
     Context |-> TrimSpace(payload.Context),
     ExpectedOutcome |-> TrimSpace(payload.ExpectedOutcome),
     Collaborators |-> normalizeCollaborators(payload.Collaborators)]

intentsHandleCreate(payload, conn) ==
    /\ Cardinality(intents) < MaxIntents
    /\ IF validateIntentPayload(payload) # "nil"
       THEN /\ ilast' = [NoIntentCall EXCEPT !.op = "handleCreate",
                            !.conn = conn, !.payload = payload,
                            !.status = 400]
            /\ UNCHANGED intents
       ELSE LET input == cleanedIntentInput(payload)
                res   == CreateIntentCall(intents, conn, input, clock,
                                          Cardinality(intents) + 1)
            IN  /\ intents' = res.rows
                /\ ilast' = [NoIntentCall EXCEPT !.op = "handleCreate",
                                !.conn = conn, !.err = res.err,
                                !.payload = payload, !.input = input,
                                !.intent = res.intent, !.stmts = res.stmts,
                                !.status = IF res.err = "nil" THEN 201 ELSE 500]
    /\ UNCHANGED <<storeVars, normVars, listVars, extVars>>

\* Scan of one row of intents into an Intent.
ScanIntent(r) ==
    [ID |-> r.id, Statement |-> r.statement, Context |-> r.context,
     ExpectedOutcome |-> r.expected_outcome,
     Collaborators |-> jsonUnmarshal(r.collaborators, NilSlice),
     CreatedAt |-> r.created_at]

\* EXISTS (SELECT 1 FROM jsonb_array_elements_text(collaborators) AS c
\*         WHERE LOWER(c) = LOWER($n))
HasCollaborator(r, value) ==
    \E i \in DOMAIN r.collaborators.elems :
       ToLower(r.collaborators.elems[i]) = ToLower(value)

\* jsonb_array_elements_text raises an error on a value that is no array.
ElementsFail(r) == r.collaborators.kind # "array"

IntentsMatching(rows, filters) ==
    IF TrimSpace(filters.Collaborator) = <<>> THEN rows
    ELSE { r \in rows : HasCollaborator(r, filters.Collaborator) }

\* The limit and offset of the page statement: LIMIT when Limit > 0, OFFSET
\* when Offset > 0.
IntentPage(o, pagination) ==
    LET rest == SubSeq(o, (IF pagination.Offset > 0 THEN pagination.Offset ELSE 0) + 1,
                       Len(o))
    IN  IF pagination.Limit > 0
        THEN SubSeq(rest, 1, Min(pagination.Limit, Len(rest)))
        ELSE rest

ListIntentsCall(rows, conn, filters, pagination, o) ==
    IF conn = "nil"
    THEN [err |-> "ErrNilDB", result |-> ZeroIntentList, stmts |-> 0]
    ELSE IF conn = "fail"
            \/ (TrimSpace(filters.Collaborator) # <<>>
                /\ \E r \in rows : ElementsFail(r))
    THEN [err |-> "ErrExec", result |-> ZeroIntentList, stmts |-> 1]
    ELSE LET page == IntentPage(o, pagination)
         IN  [err    |-> "nil",
              result |-> [Intents |-> Slice([i \in DOMAIN page |-> ScanIntent(page[i])]),
                          TotalCount |-> Cardinality(IntentsMatching(rows, filters))],
              stmts  |-> 2]

ListIntents(filters, pagination, conn) ==
    /\ \E o \in DescOrders(IntentsMatching(intents, filters)) :
          LET res == ListIntentsCall(intents, conn, filters, pagination, o)
          IN  ilast' = [NoIntentCall EXCEPT !.op = "ListIntents",
                           !.conn = conn, !.err = res.err,
                           !.filters = filters, !.pagination = pagination,
                           !.result = res.result, !.stmts = res.stmts]
    /\ UNCHANGED <<intents, storeVars, normVars, listVars, extVars>>

IntentFilterValues == { [Collaborator |-> c] : c \in {<<>>, <<"a">>, <<"B">>} }

IntentPaginations == [Limit : {0, 1}, Offset : {0, 1}]

(***************************************************************************)
(* The goal repository of the extended schema: goals carry guardrails and  *)
(* decision_rights next to constraints and success_criteria, as the        *)
(* handlers pass them and the extended repository tests expect them.       *)
(***************************************************************************)
ZeroGoalExt ==
    [ID |-> NilUUID, Title |-> <<>>, ClarityStatement |-> <<>>,
     Guardrails |-> NilSlice, DecisionRights |-> NilSlice,
     Constraints |-> NilSlice, SuccessCriteria |-> NilSlice,
     CreatedAt |-> ZeroTime, UpdatedAt |-> ZeroTime]

ZeroGoalInputExt ==
    [Title |-> <<>>, ClarityStatement |-> <<>>,
     Guardrails |-> NilSlice, DecisionRights |-> NilSlice,
     Constraints |-> NilSlice, SuccessCriteria |-> NilSlice]

GoalInputsExt ==
    { [Title |-> <<"a">>, ClarityStatement |-> <<"b">>,
       Guardrails |-> Slice(<< <<"x">> >>),
       DecisionRights |-> Slice(<< <<"a">>, <<"b">> >>),
       Constraints |-> Slice(<< <<"b">> >>), SuccessCriteria |-> Slice(<<>>)],
      [Title |-> <<"b">>, ClarityStatement |-> <<"b">>,
       Guardrails |-> Slice(<<>>), DecisionRights |-> Slice(<< <<"x">> >>),
       Constraints |-> Slice(<<>>), SuccessCriteria |-> Slice(<< <<"a">> >>)],
      [Title |-> <<"a">>, ClarityStatement |-> <<"b">>,
       Guardrails |-> NilSlice, DecisionRights |-> NilSlice,
       Constraints |-> NilSlice, SuccessCriteria |-> NilSlice] }

\* Faulty INSERT: the statement of the base schema, which leaves guardrails
\* and decision_rights to the column default.
InsertGoalExt_BaseColumns(rows, id, input, now) ==
    rows \cup { [id |-> id, title |-> input.Title,
                 clarity_statement |-> input.ClarityStatement,
                 guardrails |-> JArray(<<>>),
                 decision_rights |-> JArray(<<>>),
                 constraints |-> jsonMarshal(input.Constraints),
                 success_criteria |-> jsonMarshal(input.SuccessCriteria),
                 created_at |-> StoreTimestamp(now),
                 updated_at |-> StoreTimestamp(now)] }

\* INSERT INTO goals (id, title, clarity_statement, guardrails,
\* decision_rights, constraints, success_criteria, created_at, updated_at)
InsertGoalExt(rows, id, input, now) ==
    rows \cup { [id |-> id, title |-> input.Title,
                 clarity_statement |-> input.ClarityStatement,
                 guardrails |-> jsonMarshal(input.Guardrails),
                 decision_rights |-> jsonMarshal(input.DecisionRights),
                 constraints |-> jsonMarshal(input.Constraints),
                 success_criteria |-> jsonMarshal(input.SuccessCriteria),
                 created_at |-> StoreTimestamp(now),
                 updated_at |-> StoreTimestamp(now)] }

\* UPDATE goals SET title = $1, clarity_statement = $2, guardrails = $3,
\* decision_rights = $4, constraints = $5, success_criteria = $6,
\* updated_at = $7 WHERE id = $8
UpdateGoalExtRows(rows, id, input, now) ==
    { IF r.id = id
      THEN [r EXCEPT !.title = input.Title,
                     !.clarity_statement = input.ClarityStatement,
                     !.guardrails = jsonMarshal(input.Guardrails),
                     !.decision_rights = jsonMarshal(input.DecisionRights),
                     !.constraints = jsonMarshal(input.Constraints),
                     !.success_criteria = jsonMarshal(input.SuccessCriteria),
                     !.updated_at = StoreTimestamp(now)]
      ELSE r : r \in rows }

ScanGoalExt(r) ==
    [ID |-> r.id, Title |-> r.title, ClarityStatement |-> r.clarity_statement,
     Guardrails |-> jsonUnmarshal(r.guardrails, NilSlice),
     DecisionRights |-> jsonUnmarshal(r.decision_rights, NilSlice),
     Constraints |-> jsonUnmarshal(r.constraints, NilSlice),
     SuccessCriteria |-> jsonUnmarshal(r.success_criteria, NilSlice),
     CreatedAt |-> r.created_at, UpdatedAt |-> r.updated_at]

NoExtCall ==
    [op |-> "none", id |-> NilUUID, err |-> "nil", input |-> ZeroGoalInputExt,
     goal |-> ZeroGoalExt, goals |-> <<>>]

CreateGoalExt(input) ==
    /\ Cardinality(xgoals) < MaxExtGoals
    /\ LET id == Cardinality(xgoals) + 1
       IN  /\ xgoals' = InsertGoalExt(xgoals, id, input, clock)
           /\ xlast' = [NoExtCall EXCEPT !.op = "CreateGoal", !.id = id,
                           !.input = input,
                           !.goal = [ID |-> id, Title |-> input.Title,
                                     ClarityStatement |-> input.ClarityStatement,
                                     Guardrails |-> input.Guardrails,
                                     DecisionRights |-> input.DecisionRights,
                                     Constraints |-> input.Constraints,
                                     SuccessCriteria |-> input.SuccessCriteria,
                                     CreatedAt |-> clock, UpdatedAt |-> clock]]
    /\ UNCHANGED <<storeVars, normVars, listVars, intentVars>>

GetGoalExt(id) ==
    /\ xlast' = IF RowsWithID(xgoals, id) = {}
                THEN [NoExtCall EXCEPT !.op = "GetGoal", !.id = id,
                                       !.err = "ErrNoRows"]
                ELSE [NoExtCall EXCEPT !.op = "GetGoal", !.id = id,
                         !.goal = ScanGoalExt(CHOOSE r \in RowsWithID(xgoals, id) : TRUE)]
    /\ UNCHANGED <<xgoals, storeVars, normVars, listVars, intentVars>>

UpdateGoalExt(id, input) ==
    /\ xgoals' = UpdateGoalExtRows(xgoals, id, input, clock)
    /\ xlast' = IF RowsWithID(xgoals', id) = {}
                THEN [NoExtCall EXCEPT !.op = "UpdateGoal", !.id = id,
                                       !.input = input, !.err = "ErrNoRows"]
                ELSE [NoExtCall EXCEPT !.op = "UpdateGoal", !.id = id,
                         !.input = input,
                         !.goal = ScanGoalExt(CHOOSE r \in RowsWithID(xgoals', id) : TRUE)]
    /\ UNCHANGED <<storeVars, normVars, listVars, intentVars>>

\* ListGoals with no filter and no limit.
ListGoalsExt ==
    /\ \E o \in DescOrders(xgoals) :
          xlast' = [NoExtCall EXCEPT !.op = "ListGoals",
                       !.goals = [i \in DOMAIN o |-> ScanGoalExt(o[i])]]
    /\ UNCHANGED <<xgoals, storeVars, normVars, listVars, intentVars>>

(***************************************************************************)
(* Specifications.  Spec: the goals table under any sequence of repository *)
(* and handler calls.  SpecNorm: the normalizers on every bounded input.   *)
(***************************************************************************)
Init ==
    /\ goals = {}
    /\ nextId = 1
    /\ clock = NanosPerMicro
    /\ last = NoCall
    /\ normIn = NilSlice
    /\ normOut = NoOutput
    /\ normAgain = NoOutput
    /\ normStage = 0
    /\ list = NoList
    /\ hlist = NoHandlerList
    /\ intents = {}
    /\ ilast = NoIntentCall
    /\ xgoals = {}
    /\ xlast = NoExtCall

Next ==
    \/ \E input \in GoalInputs, conn \in ConnStates : CreateGoal(input, conn)
    \/ \E id \in Ids, conn \in ConnStates : GetGoal(id, conn)
    \/ \E id \in Ids, input \in GoalInputs, conn \in ConnStates :
          UpdateGoal(id, input, conn)
    \/ \E id \in Ids, conn \in ConnStates : DeleteGoal(id, conn)
    \/ \E payload \in GoalInputs, conn \in ConnStates :
          handleCreate(payload, conn)
    \/ \E id \in PathIds, payload \in GoalInputs, conn \in ConnStates :
          handleUpdate(id, payload, conn)
    \/ Tick

Spec == Init /\ [][Next]_vars

InitNorm ==
    /\ goals = {}
    /\ nextId = 1
    /\ clock = NanosPerMicro
    /\ last = NoCall
    /\ normIn \in NormInputs
    /\ normOut = NoOutput
    /\ normAgain = NoOutput
    /\ normStage = 0
    /\ list = NoList
    /\ hlist = NoHandlerList
    /\ intents = {}
    /\ ilast = NoIntentCall
    /\ xgoals = {}
    /\ xlast = NoExtCall

NextNorm == Normalize \/ NormalizeAgain

SpecNorm == InitNorm /\ [][NextNorm]_vars

\* SpecList: on any of the tables, a GetGoal, or one ListGoals call, its two
\* statements apart, with a CreateGoal or DeleteGoal of another caller
\* between them.
InitList ==
    /\ goals \in ListTables
    /\ nextId = Cardinality(goals) + 1
    /\ clock = NanosPerMicro
    /\ last = NoCall
    /\ normIn = NilSlice
    /\ normOut = NoOutput
    /\ normAgain = NoOutput
    /\ normStage = 0
    /\ list = NoList
    /\ hlist = NoHandlerList
    /\ intents = {}
    /\ ilast = NoIntentCall
    /\ xgoals = {}
    /\ xlast = NoExtCall

NextList ==
    \/ /\ last = NoCall
       /\ \E filters \in ListFilters, pagination \in ListPaginations,
             conn \in ConnStates : ListGoalsCount(filters, pagination, conn)
    \/ \E conn \in {"ok", "fail"} : ListGoalsPage(conn)
    \/ list.pc = "idle" /\ \E id \in Ids : GetGoal(id, "ok")
    \/ list.pc = "counted" /\ last = NoCall /\ CreateGoal(ConcurrentInput, "ok")
    \/ list.pc = "counted" /\ last = NoCall /\ \E id \in Ids : DeleteGoal(id, "ok")

SpecList == InitList /\ [][NextList]_vars

\* SpecIntents: intents are created, with and without collaborators, and
\* listed by collaborator.
NextIntents ==
    \/ \E input \in IntentInputs, conn \in ConnStates : CreateIntent(input, conn)
    \/ \E filters \in IntentFilterValues, pagination \in IntentPaginations,
          conn \in ConnStates : ListIntents(filters, pagination, conn)

SpecIntents == Init /\ [][NextIntents]_vars

\* SpecExt: the repository of the extended schema.
NextExt ==
    \/ \E input \in GoalInputsExt : CreateGoalExt(input)
    \/ \E id \in 1..MaxExtGoals : GetGoalExt(id)
    \/ \E id \in 1..MaxExtGoals, input \in GoalInputsExt : UpdateGoalExt(id, input)
    \/ ListGoalsExt
    \/ Tick

SpecExt == Init /\ [][NextExt]_vars

\* SpecCalls: every repository function of the source, called with a nil
\* handle, a statement that executes and one that fails.
CallFilters ==
    { NoFilters,
      [Query |-> <<"A">>, CreatedAfter |-> TimePtr(NanosPerMicro),
       CreatedBefore |-> NilTime] }

CallPagination == [Limit |-> 1, Offset |-> 0]

CallIntentInput ==
    [Statement |-> <<"a">>, Context |-> <<"b">>, ExpectedOutcome |-> <<"x">>,
     Collaborators |-> Slice(<< <<"A">> >>)]

NextCalls ==
    \/ \E conn \in ConnStates : CreateGoal(ConcurrentInput, conn)
    \/ \E id \in Ids, conn \in ConnStates : GetGoal(id, conn)
    \/ \E id \in Ids, conn \in ConnStates :
          UpdateGoal(id, ConcurrentInput, conn)
    \/ \E id \in Ids, conn \in ConnStates : DeleteGoal(id, conn)
    \/ \E filters \in CallFilters, conn \in ConnStates :
          ListGoalsCount(filters, CallPagination, conn)
    \/ \E conn \in {"ok", "fail"} : ListGoalsPage(conn)
    \/ \E conn \in ConnStates : CreateIntent(CallIntentInput, conn)

SpecCalls == Init /\ [][NextCalls]_vars

\* SpecBuild: ListGoals with every combination of filters present or absent,
\* two values of each, and limits and offsets below, at and above zero.
BuildFilters ==
    [Query : {<<>>, <<" ">>, <<"A">>, <<"'", "b">>},
     CreatedAfter : {NilTime, TimePtr(NanosPerMicro), TimePtr(2 * NanosPerMicro)},
     CreatedBefore : {NilTime, TimePtr(NanosPerMicro), TimePtr(2 * NanosPerMicro)}]

BuildPaginations == [Limit : -1..2, Offset : -1..2]

NextBuild ==
    \/ \E filters \in BuildFilters, pagination \in BuildPaginations :
          ListGoalsCount(filters, pagination, "ok")
    \/ ListGoalsPage("ok")

SpecBuild == Init /\ [][NextBuild]_vars

\* SpecHandlers: the create and update handlers of goals and the create
\* handler of intents, on payloads with padded and with blank required
\* texts.
GoalPayloads ==
    { [Title |-> <<" ", "a">>, ClarityStatement |-> <<"b", " ">>,
       Constraints |-> NilSlice, SuccessCriteria |-> NilSlice],
      [Title |-> <<" ">>, ClarityStatement |-> <<"b">>,
       Constraints |-> NilSlice, SuccessCriteria |-> NilSlice],
      [Title |-> <<"a">>, ClarityStatement |-> <<>>,
       Constraints |-> NilSlice, SuccessCriteria |-> NilSlice] }

IntentPayloads ==
    { [Statement |-> <<"a", " ">>, Context |-> <<" ", "b">>,
       ExpectedOutcome |-> <<"x">>, Collaborators |-> NilSlice],
      [Statement |-> <<"a">>, Context |-> <<" ">>,
       ExpectedOutcome |-> <<"x">>, Collaborators |-> NilSlice],
      [Statement |-> <<"a">>, Context |-> <<"b">>,
       ExpectedOutcome |-> <<>>, Collaborators |-> NilSlice],
      [Statement |-> <<>>, Context |-> <<"b">>,
       ExpectedOutcome |-> <<"x">>, Collaborators |-> NilSlice] }

NextHandlers ==
    \/ \E payload \in GoalPayloads, conn \in {"ok", "fail"} :
          handleCreate(payload, conn)
    \/ \E id \in PathIds, payload \in GoalPayloads, conn \in {"ok", "fail"} :
          handleUpdate(id, payload, conn)
    \/ \E payload \in IntentPayloads : intentsHandleCreate(payload, "ok")

SpecHandlers == Init /\ [][NextHandlers]_vars

\* SpecSearch: ListGoals with a search term on tables of goals that hold
\* the letter q in the title, in the clarity statement, in a success
\* criterion, or in a constraint only.
SearchRowShapes ==
    { [title |-> <<"Q">>, clarity_statement |-> <<"b">>,
       constraints |-> JArray(<<>>), success_criteria |-> JArray(<<>>),
       created_at |-> NanosPerMicro],
      [title |-> <<"a">>, clarity_statement |-> <<"b", "q">>,
       constraints |-> JArray(<<>>), success_criteria |-> JArray(<<>>),
       created_at |-> 2 * NanosPerMicro],
      [title |-> <<"a">>, clarity_statement |-> <<"b">>,
       constraints |-> JArray(<<>>), success_criteria |-> JArray(<< <<"q">> >>),
       created_at |-> NanosPerMicro],
      [title |-> <<"a">>, clarity_statement |-> <<"b">>,
       constraints |-> JArray(<< <<"q">> >>), success_criteria |-> JArray(<<>>),
       created_at |-> 2 * NanosPerMicro] }

SearchTables == { TableOf(sh) : sh \in SeqsUpTo(SearchRowShapes, MaxRows) }

\* Search terms: a letter in either case, a letter no goal holds, and the
\* two characters ILIKE reads as wildcards.
SearchFilters ==
    [Query : {<<"q">>, <<"Q">>, <<"z">>, <<"_">>, <<"%">>},
     CreatedAfter : {NilTime, TimePtr(2 * NanosPerMicro)},
     CreatedBefore : {NilTime}]

InitSearch ==
    /\ goals \in SearchTables
    /\ nextId = Cardinality(goals) + 1
    /\ clock = NanosPerMicro
    /\ last = NoCall
    /\ normIn = NilSlice
    /\ normOut = NoOutput
    /\ normAgain = NoOutput
    /\ normStage = 0
    /\ list = NoList
    /\ hlist = NoHandlerList
    /\ intents = {}
    /\ ilast = NoIntentCall
    /\ xgoals = {}
    /\ xlast = NoExtCall

NextSearch ==
    \/ \E filters \in SearchFilters : ListGoalsCount(filters, NoPagination, "ok")
    \/ ListGoalsPage("ok")

SpecSearch == InitSearch /\ [][NextSearch]_vars

\* SpecFrame: one repository call on a table of several goals, whose
\* identifiers differ from the one the next CreateGoal draws.
FrameTables ==
    { { [r EXCEPT !.id = r.id + MaxGoals] : r \in t } : t \in ListTables }

FrameIds == 1..(MaxGoals + MaxRows)

InitFrame ==
    /\ goals \in FrameTables
    /\ nextId = 1
    /\ clock = 3 * NanosPerMicro
    /\ last = NoCall
    /\ normIn = NilSlice
    /\ normOut = NoOutput
    /\ normAgain = NoOutput
    /\ normStage = 0
    /\ list = NoList
    /\ hlist = NoHandlerList
    /\ intents = {}
    /\ ilast = NoIntentCall
    /\ xgoals = {}
    /\ xlast = NoExtCall

NextFrame ==
    \/ /\ last = NoCall /\ list = NoList
       /\ \E input \in GoalInputs, conn \in ConnStates : CreateGoal(input, conn)
    \/ /\ last = NoCall /\ list = NoList
       /\ \E id \in FrameIds, conn \in ConnStates : GetGoal(id, conn)
    \/ /\ last = NoCall /\ list = NoList
       /\ \E id \in FrameIds, input \in GoalInputs, conn \in ConnStates :
             UpdateGoal(id, input, conn)
    \/ /\ last = NoCall /\ list = NoList
       /\ \E id \in FrameIds, conn \in ConnStates : DeleteGoal(id, conn)
    \/ /\ last = NoCall /\ list = NoList
       /\ \E filters \in CallFilters, conn \in ConnStates :
             ListGoalsCount(filters, CallPagination, conn)
    \/ \E conn \in {"ok", "fail"} : ListGoalsPage(conn)

SpecFrame == InitFrame /\ [][NextFrame]_vars

\* SpecPage: one request to the list handler with page and pageSize missing,
\* blank, no number, below 1, small, at the cap, above the cap, at the
\* largest int and beyond it.
PageValues ==
    { <<>>, <<" ">>, <<"x">>, <<" ", "2">>, <<"0">>, <<"-", "1">>, <<"1">>,
      <<"2">>, <<"3", "2", "7", "6", "7">>, <<"3", "2", "7", "6", "8">> }

PageSizeValues ==
    { <<>>, <<"x">>, <<"0">>, <<"-", "3">>, <<"1">>, <<"2">>, <<"5">>,
      <<"1", "0", "0">>, <<"1", "0", "1">> }

NextPage ==
    /\ hlist = NoHandlerList
    /\ \E pageValue \in PageValues, pageSizeValue \in PageSizeValues,
          conn \in {"ok", "fail"} : handleList(pageValue, pageSizeValue, conn)

SpecPage == InitSearch /\ [][NextPage]_vars

(***************************************************************************)
(* Vocabulary of the properties.                                           *)
(***************************************************************************)
\* A step in which a call returned (every step but Tick), by function.
Returned(ops) ==
    /\ clock' = clock
    /\ last'.op \in ops
    /\ UNCHANGED <<listVars, intentVars, extVars>>

UpdateOps == {"UpdateGoal", "handleUpdate"}

CreateOps == {"CreateGoal", "handleCreate"}

\* The call reached the database and its statement executed.
Executed(l) == l.conn = "ok" /\ l.status # 400

IdsOf(rows) == { r.id : r \in rows }

\* The positions of a sequence the normalizer is to keep: not blank, and no
\* earlier position holds the same word ignoring case.
Kept(values) ==
    { i \in DOMAIN values :
        /\ TrimSpace(values[i]) # <<>>
        /\ \A j \in 1..(i - 1) :
              ToLower(TrimSpace(values[j])) # ToLower(TrimSpace(values[i])) }

\* out holds the trimmed values at the kept positions, in input order.
IsNormalFormOf(out, values) ==
    /\ Len(out) = Cardinality(Kept(values))
    /\ \A k \in 1..Len(out) :
          \E i \in Kept(values) :
             /\ Cardinality({ j \in Kept(values) : j < i }) = k - 1
             /\ out[k] = TrimSpace(values[i])

\* No blank or padded element, no two elements equal ignoring case.
IsNormalized(elems) ==
    /\ \A i \in DOMAIN elems : elems[i] # <<>> /\ TrimSpace(elems[i]) = elems[i]
    /\ \A i, j \in DOMAIN elems :
          i # j => ToLower(elems[i]) # ToLower(elems[j])

(***************************************************************************)
(* C1.  DeleteGoal twice on one identifier: a DeleteGoal whose statement   *)
(* executes returns nil exactly when a row with that identifier exists and *)
(* sql.ErrNoRows otherwise, it leaves no row with that identifier, and     *)
(* only a create brings an identifier into the table; so the second of two *)
(* deletes with no create between them returns sql.ErrNoRows.              *)
(***************************************************************************)
C1_DeleteThenDeleteNotFound ==
    [][ /\ Returned({"DeleteGoal"}) /\ Executed(last')
           => /\ last'.err = IF RowsWithID(goals, last'.id) # {}
                             THEN "nil" ELSE "ErrNoRows"
              /\ RowsWithID(goals', last'.id) = {}
        /\ Returned({"DeleteGoal"}) /\ Executed(last')
           /\ last.op = "DeleteGoal" /\ last.err = "nil"
           /\ last'.id = last.id
           => last'.err = "ErrNoRows"
        /\ ~Returned(CreateOps) => IdsOf(goals') \subseteq IdsOf(goals)
        /\ IdsOf(goals') \ IdsOf(goals) \subseteq {nextId}
        /\ nextId' >= nextId
        /\ \A r \in goals : r.id < nextId
      ]_vars

\* A delete has answered sql.ErrNoRows for a goal that was created, and so
\* deleted, before.
C1_Witness ==
    /\ last.op = "DeleteGoal" /\ last.err = "ErrNoRows"
    /\ last.id < nextId

(***************************************************************************)
(* C2.  UpdateGoal (called directly or by handleUpdate) on an identifier   *)
(* that matches no row returns sql.ErrNoRows and the zero Goal, and the    *)
(* table is the same before and after.                                     *)
(***************************************************************************)
C2_UpdateMissingWritesNothing ==
    [][ Returned(UpdateOps) /\ Executed(last')
        /\ RowsWithID(goals, last'.id) = {}
        => /\ last'.err = "ErrNoRows"
           /\ last'.goal = ZeroGoal
           /\ goals' = goals
      ]_vars

\* An update has answered sql.ErrNoRows while another goal was stored.
C2_Witness ==
    /\ last.op = "UpdateGoal" /\ last.err = "ErrNoRows"
    /\ goals # {}

(***************************************************************************)
(* C3.  GetGoal called right after a successful create, with the           *)
(* identifier the create returned, returns a Goal equal to the one the     *)
(* create returned.                                                        *)
(***************************************************************************)
C3_GetReturnsCreated ==
    [][ Returned({"GetGoal"}) /\ Executed(last')
        /\ last.op \in CreateOps /\ last.err = "nil"
        /\ last'.id = last.goal.ID
        => /\ last'.err = "nil"
           /\ last'.goal = last.goal
      ]_vars

(***************************************************************************)
(* C4.  A row keeps its identifier and its created_at for as long as it is *)
(* stored: no step changes the created_at of a row, an update neither adds *)
(* nor removes an identifier, and the Goal a successful update returns     *)
(* carries the identifier asked for and the row's created_at.              *)
(***************************************************************************)
C4_IdAndCreatedAtImmutable ==
    [][ /\ \A r \in goals : \A r2 \in RowsWithID(goals', r.id) :
              r2.created_at = r.created_at
        /\ Returned(UpdateOps) => IdsOf(goals') = IdsOf(goals)
        /\ Returned(UpdateOps) /\ last'.err = "nil" /\ Executed(last')
           => /\ last'.goal.ID = last'.id
              /\ \A r \in RowsWithID(goals, last'.id) :
                    last'.goal.CreatedAt = r.created_at
      ]_vars

\* A goal has been updated after the microsecond it was created in.
C4_Witness ==
    /\ last.op \in UpdateOps /\ last.err = "nil" /\ Executed(last)
    /\ \E r \in goals : r.id = last.id /\ r.created_at < r.updated_at

(***************************************************************************)
(* C5.  After a successful update the row with that identifier holds       *)
(* exactly the title, clarity statement, constraints and success criteria  *)
(* of the GoalInput, and so does the Goal returned.                        *)
(***************************************************************************)
C5_UpdateReplacesMutableFields ==
    last.op \in UpdateOps /\ last.err = "nil" /\ Executed(last)
    => /\ Cardinality(RowsWithID(goals, last.id)) = 1
       /\ \A r \in RowsWithID(goals, last.id) :
             /\ r.title = last.input.Title
             /\ r.clarity_statement = last.input.ClarityStatement
             /\ r.constraints.elems = last.input.Constraints.elems
             /\ r.success_criteria.elems = last.input.SuccessCriteria.elems
             /\ (r.constraints.kind = "null") = last.input.Constraints.nil
             /\ (r.success_criteria.kind = "null") = last.input.SuccessCriteria.nil
       /\ last.goal.Title = last.input.Title
       /\ last.goal.ClarityStatement = last.input.ClarityStatement
       /\ last.goal.Constraints = last.input.Constraints
       /\ last.goal.SuccessCriteria = last.input.SuccessCriteria

\* An update has replaced tag sets with others: the input's constraints hold
\* an element and its success criteria are empty.
C5_Witness ==
    /\ last.op = "UpdateGoal" /\ last.err = "nil"
    /\ Len(last.input.Constraints.elems) > 0
    /\ Len(last.input.SuccessCriteria.elems) = 0
    /\ last.goal.CreatedAt < last.goal.UpdatedAt

C7_NormalizerKeepsFirstSeen ==
    normStage >= 1
    => /\ ~normOut.goal.nil
       /\ ~normOut.collab.nil
       /\ IsNormalFormOf(normOut.goal.elems, normIn.elems)
       /\ IsNormalFormOf(normOut.collab.elems, normIn.elems)

\* [" a ", "A", "", "b"] has been normalized to ["a", "b"].
C7_Witness ==
    /\ normStage >= 1
    /\ normIn.elems = << <<" ", "a", " ">>, <<"A">>, <<>>, <<"b">> >>
    /\ normOut.goal.elems = << <<"a">>, <<"b">> >>
    /\ normOut.collab.elems = << <<"a">>, <<"b">> >>

(***************************************************************************)
(* C8.  Normalizing the output of the normalizer returns it unchanged.     *)
(***************************************************************************)
C8_NormalizerIdempotent ==
    normStage = 2 => normAgain = normOut

\* The second pass has run on an output that differs from the input and
\* holds two values.
C8_Witness ==
    /\ normStage = 2
    /\ Len(normOut.goal.elems) = 2
    /\ normOut.goal.elems # normIn.elems

(***************************************************************************)
(* C9.  Every tag-set column of every stored row is a JSON array, never    *)
(* JSON null.                                                              *)
(***************************************************************************)
C9_TagSetsNeverNull ==
    \A r \in goals :
       r.constraints.kind = "array" /\ r.success_criteria.kind = "array"

Listed == list.pc = "done" /\ list.err = "nil"

\* No other caller has written between the COUNT and the page statement.
NoWriter == last.op # "DeleteGoal" /\ last.op # "CreateGoal"

PageOf(l) == l.result.Goals.elems

PageIds(l) == { PageOf(l)[i].ID : i \in DOMAIN PageOf(l) }

Max(a, b) == IF a >= b THEN a ELSE b

C12_PageIsRankedSlice ==
    Listed
    => LET M    == Matching(goals, countQuery(list.filters))
           page == PageOf(list)
           L    == list.pagination.Limit
           O    == list.pagination.Offset
           left == Max(0, Cardinality(M) - O)
       IN  /\ \A k \in DOMAIN page : \E r \in M : page[k].ID = r.id
           /\ \A i, j \in DOMAIN page :
                 /\ i # j => page[i].ID # page[j].ID
                 /\ i < j => page[i].CreatedAt >= page[j].CreatedAt
           /\ Len(page) = IF L > 0 THEN Min(L, left) ELSE left
           /\ \A k \in DOMAIN page :
                 /\ Cardinality({ r \in M : r.created_at > page[k].CreatedAt })
                       <= O + k - 1
                 /\ Cardinality({ r \in M : r.created_at >= page[k].CreatedAt })
                       >= O + k
           /\ NoWriter => list.result.TotalCount = Cardinality(M)

\* Three rows, limit 1, offset 1: the page is the row ranked second, an
\* older row is left out, and the total is 3.
C12_Witness ==
    /\ Listed /\ NoWriter
    /\ list.filters = NoFilters
    /\ list.pagination = [Limit |-> 1, Offset |-> 1]
    /\ Cardinality(goals) = 3
    /\ Len(PageOf(list)) = 1
    /\ list.result.TotalCount = 3
    /\ \E r \in goals : r.created_at < PageOf(list)[1].CreatedAt

(***************************************************************************)
(* C13.  As claimed: with createdAfter = T every goal returned has a       *)
(* creation timestamp >= T.                                                *)
(***************************************************************************)
C13_CreatedAfterIsLowerBound ==
    Listed /\ ~list.filters.CreatedAfter.nil
    => \A k \in DOMAIN PageOf(list) :
          PageOf(list)[k].CreatedAt >= list.filters.CreatedAfter.t

(***************************************************************************)
(* C13, amended.  The bounds are compared at the microsecond the column    *)
(* keeps: with no search, limit or offset, ListGoals returns exactly the   *)
(* rows whose created_at is >= T with its part below a microsecond dropped *)
(* (when createdAfter = T is given) and <= U (when createdBefore = U is    *)
(* given), so both together return the intersection of the two one-sided   *)
(* results; with a limit or offset the page holds such rows only.          *)
(***************************************************************************)
C13_DateRangeAtColumnResolution ==
    Listed /\ TrimSpace(list.filters.Query) = <<>>
    => LET T  == list.filters.CreatedAfter
           U  == list.filters.CreatedBefore
           InRange == { r \in goals :
                          /\ T.nil \/ r.created_at >= T.t - (T.t % NanosPerMicro)
                          /\ U.nil \/ r.created_at <= U.t }
       IN  /\ PageIds(list) \subseteq IdsOf(InRange)
           /\ list.pagination = NoPagination => PageIds(list) = IdsOf(InRange)

\* A list with createdAfter on a microsecond has returned a goal created in
\* that microsecond and left an older one out.
C13_Witness ==
    /\ Listed
    /\ list.filters = [Query |-> <<>>, CreatedAfter |-> TimePtr(2 * NanosPerMicro),
                       CreatedBefore |-> NilTime]
    /\ \E k \in DOMAIN PageOf(list) : PageOf(list)[k].CreatedAt = 2 * NanosPerMicro
    /\ \E r \in goals : r.created_at < 2 * NanosPerMicro

(***************************************************************************)
(* C18.  A stored tag set that is not an array of strings: GetGoal of such *)
(* a row returns the parse error and the zero Goal; ListGoals, when a row  *)
(* it selects is such a row, returns the parse error and the zero result,  *)
(* with no goal of the page and no total, whatever the other rows are.     *)
(***************************************************************************)
C18_CorruptTagSetFailsWholeCall ==
    LET Corrupt(r) == r.constraints.kind = "object"
                      \/ r.success_criteria.kind = "object"
    IN  /\ /\ last.op = "GetGoal" /\ last.conn = "ok"
           /\ \E r \in goals : r.id = last.id /\ Corrupt(r)
           => last.err = "ErrUnmarshal" /\ last.goal = ZeroGoal
        /\ /\ list.pc = "done" /\ list.conn = "ok" /\ list.stmts = 2
           /\ list.pagination = NoPagination
           /\ \E r \in Matching(goals, countQuery(list.filters)) : Corrupt(r)
           => list.err = "ErrUnmarshal"
        /\ list.pc = "done" /\ list.err = "ErrUnmarshal"
           => list.result = ZeroListResult
        /\ Listed => \A k \in DOMAIN PageOf(list) :
                        \E r \in goals : r.id = PageOf(list)[k].ID /\ ~Corrupt(r)

\* ListGoals of three rows, one of them with success_criteria an object, has
\* returned the parse error.
C18_Witness ==
    /\ list.pc = "done" /\ list.err = "ErrUnmarshal"
    /\ list.pagination = NoPagination
    /\ Cardinality(goals) = 3
    /\ Cardinality({ r \in goals : r.success_criteria.kind = "object" }) = 1

(***************************************************************************)
(* C20.  For every combination of filters, limit and offset, the           *)
(* placeholders of the COUNT query and of the page query ListGoals builds  *)
(* are $1..$n in the order they appear, n being the number of arguments    *)
(* bound, and the i-th argument is the value of the condition written with *)
(* $i: the search pattern, a bound of created_at, the limit, the offset.   *)
(***************************************************************************)
C20_PlaceholdersMatchArgs ==
    list.pc # "idle"
    => \A q \in { countQuery(list.filters),
                  listQuery(list.filters, list.pagination) } :
          /\ Placeholders(q) = [i \in 1..Len(q.args) |-> i]
          /\ \A c \in { q.conditions[i] : i \in DOMAIN q.conditions }
                      \cup { q.tail[i] : i \in DOMAIN q.tail } :
                \A k \in DOMAIN c.ph :
                   /\ c.ph[k] \in DOMAIN q.args
                   /\ q.args[c.ph[k]] =
                        CASE c.kind = "search" ->
                               Arg("pattern", <<"%">> \o list.filters.Query \o <<"%">>, 0)
                          [] c.kind = "created_at >=" ->
                               Arg("time", <<>>, list.filters.CreatedAfter.t)
                          [] c.kind = "created_at <=" ->
                               Arg("time", <<>>, list.filters.CreatedBefore.t)
                          [] c.kind = "LIMIT" ->
                               Arg("int", <<>>, list.pagination.Limit)
                          [] c.kind = "OFFSET" ->
                               Arg("int", <<>>, list.pagination.Offset)

\* ListGoals has been called with a search, both bounds, a limit and an
\* offset: seven placeholders in the page query, five in the COUNT query.
C20_Witness ==
    /\ list.pc = "done" /\ list.stmts = 2
    /\ TrimSpace(list.filters.Query) # <<>>
    /\ ~list.filters.CreatedAfter.nil /\ ~list.filters.CreatedBefore.nil
    /\ list.pagination.Limit > 0 /\ list.pagination.Offset > 0
    /\ Len(listQuery(list.filters, list.pagination).args) = 7
    /\ Len(countQuery(list.filters).args) = 5

(***************************************************************************)
(* C15.  GetGoal of an identifier no row has, on a working connection,     *)
(* returns sql.ErrNoRows itself, not an execution failure, and the zero    *)
(* Goal.                                                                   *)
(***************************************************************************)
C15_GetMissingIsErrNoRows ==
    /\ last.op = "GetGoal" /\ last.conn = "ok"
    /\ ~\E r \in goals : r.id = last.id
    => last.err = "ErrNoRows" /\ last.goal = ZeroGoal

\* GetGoal has looked for an identifier that the one stored goal does not
\* have.
C15_Witness ==
    /\ last.op = "GetGoal" /\ last.conn = "ok"
    /\ goals # {}
    /\ ~\E r \in goals : r.id = last.id
    /\ last.err = "ErrNoRows"

(***************************************************************************)
(* Vocabulary of the properties of all calls.                              *)
(***************************************************************************)
GoalOps == {"CreateGoal", "GetGoal", "UpdateGoal", "DeleteGoal"}

\* A step in which ListGoals has run a statement or returned.
ListStep == list' # list

\* A step that is a call of an intent function.
IntentStep == ilast' # ilast

(***************************************************************************)
(* C16.  Every repository function called with a nil handle returns the    *)
(* "database handle is nil" error and the zero value of its result, issues *)
(* no statement and leaves the tables as they are: CreateGoal, GetGoal,    *)
(* UpdateGoal, DeleteGoal, ListGoals and CreateIntent.                     *)
(***************************************************************************)
C16_NilHandleIssuesNothing ==
    [][ /\ Returned(GoalOps) /\ last'.conn = "nil"
           => /\ last'.err = "ErrNilDB" /\ last'.goal = ZeroGoal
              /\ last'.stmts = 0
              /\ goals' = goals /\ nextId' = nextId
        /\ ListStep /\ list'.conn = "nil"
           => /\ list'.pc = "done" /\ list'.err = "ErrNilDB"
              /\ list'.result = ZeroListResult /\ list'.stmts = 0
              /\ goals' = goals
        /\ IntentStep /\ ilast'.conn = "nil"
           => /\ ilast'.err = "ErrNilDB" /\ ilast'.intent = ZeroIntent
              /\ ilast'.stmts = 0
              /\ intents' = intents ]_vars

\* CreateGoal, ListGoals and CreateIntent have each been called with a nil
\* handle.
C16_Witness ==
    /\ last.op = "CreateGoal" /\ last.conn = "nil" /\ last.err = "ErrNilDB"
    /\ list.pc = "done" /\ list.conn = "nil"
    /\ ilast.op = "CreateIntent" /\ ilast.conn = "nil"

(***************************************************************************)
(* C17.  No call issues a statement twice: CreateGoal, GetGoal,            *)
(* UpdateGoal, DeleteGoal and CreateIntent issue at most one statement,    *)
(* ListGoals at most two; when a statement fails the call ends there with  *)
(* the error of that statement and the zero value, nothing written.        *)
(***************************************************************************)
C17_NoStatementReissued ==
    [][ /\ Returned(GoalOps)
           => /\ last'.stmts <= 1
              /\ last'.conn = "fail"
                 => /\ last'.err = "ErrExec" /\ last'.goal = ZeroGoal
                    /\ last'.stmts = 1
                    /\ goals' = goals
        /\ ListStep
           => /\ list'.stmts <= 2
              /\ list'.stmts <= list.stmts + 1
              /\ list'.conn = "fail"
                 => /\ list'.pc = "done" /\ list'.err = "ErrExec"
                    /\ list'.result = ZeroListResult
                    /\ list'.stmts = list.stmts + 1
                    /\ goals' = goals
        /\ IntentStep
           => /\ ilast'.stmts <= 1
              /\ ilast'.conn = "fail"
                 => /\ ilast'.err = "ErrExec" /\ ilast'.intent = ZeroIntent
                    /\ ilast'.stmts = 1
                    /\ intents' = intents ]_vars

\* UpdateGoal of a stored goal has failed on its statement, and ListGoals
\* on its second.
C17_Witness ==
    /\ last.op = "UpdateGoal" /\ last.conn = "fail" /\ last.err = "ErrExec"
    /\ \E r \in goals : r.id = last.id
    /\ list.pc = "done" /\ list.conn = "fail" /\ list.stmts = 2

(***************************************************************************)
(* C14.  As claimed: ListIntents filtered by a collaborator, with no limit *)
(* or offset, returns exactly the intents whose stored collaborators hold  *)
(* an element equal to the value ignoring case.                            *)
(***************************************************************************)
C14_CollaboratorFilterSelects ==
    /\ ilast.op = "ListIntents" /\ ilast.conn = "ok"
    /\ TrimSpace(ilast.filters.Collaborator) # <<>>
    /\ ilast.pagination = NoPagination
    => { ilast.result.Intents.elems[i].ID :
            i \in DOMAIN ilast.result.Intents.elems }
       = { r.id : r \in { x \in intents :
                \E k \in DOMAIN x.collaborators.elems :
                   ToLower(x.collaborators.elems[k])
                      = ToLower(ilast.filters.Collaborator) } }

QueryText(q) == [conditions |-> q.conditions, tail |-> q.tail]

\* The criteria of a filter value and the clauses of a pagination value
\* that are present.
Presence(filters, pagination) ==
    << TrimSpace(filters.Query) # <<>>, filters.CreatedAfter.nil,
       filters.CreatedBefore.nil, pagination.Limit > 0, pagination.Offset > 0 >>

Kinds(conds) == [i \in DOMAIN conds |-> conds[i].kind]

(***************************************************************************)
(* C21.  Within one ListGoals call the COUNT query and the page query have *)
(* the same WHERE clause, and the arguments of the page query start with   *)
(* the arguments of the COUNT query, in the same order, followed only by   *)
(* the arguments of LIMIT and OFFSET; the COUNT query has no ORDER BY,     *)
(* LIMIT or OFFSET.  With no criterion present neither query has a WHERE   *)
(* clause and the COUNT query has no arguments.                            *)
(***************************************************************************)
C21_CountAndPageShareWhere ==
    list.pc # "idle"
    => LET c == countQuery(list.filters)
           l == listQuery(list.filters, list.pagination)
       IN  /\ c.conditions = l.conditions
           /\ c.tail = <<>>
           /\ Len(l.args) = Len(c.args) + Len(l.tail)
           /\ SubSeq(l.args, 1, Len(c.args)) = c.args
           /\ \A i \in DOMAIN l.tail : l.tail[i].kind \in {"LIMIT", "OFFSET"}
           /\ \A i \in DOMAIN l.conditions :
                 l.conditions[i].kind \notin {"LIMIT", "OFFSET"}
           /\ /\ TrimSpace(list.filters.Query) = <<>>
              /\ list.filters.CreatedAfter.nil /\ list.filters.CreatedBefore.nil
              => c.conditions = <<>> /\ c.args = <<>> /\ l.conditions = <<>>
           /\ c.args # <<>> => c.conditions # <<>>

\* ListGoals has run both statements with a search and a lower bound: two
\* conditions and four arguments in the COUNT query, a fifth for LIMIT.
C21_Witness ==
    /\ list.pc = "done" /\ list.stmts = 2 /\ list.err = "nil"
    /\ Len(countQuery(list.filters).conditions) = 2
    /\ Len(countQuery(list.filters).args) = 4
    /\ Len(listQuery(list.filters, list.pagination).args) = 5

(***************************************************************************)
(* C22.  The page query has a LIMIT clause exactly when the limit is       *)
(* positive and an OFFSET clause exactly when the offset is positive, in   *)
(* that order.  LIMIT is written with the number after the last filter     *)
(* argument; OFFSET with the number after LIMIT's, or after the last       *)
(* filter argument when there is no LIMIT.                                 *)
(***************************************************************************)
C22_LimitOffsetClauses ==
    list.pc # "idle"
    => LET n == Len(countQuery(list.filters).args)
           t == listQuery(list.filters, list.pagination).tail
           L == list.pagination.Limit
           O == list.pagination.Offset
       IN  /\ L <= 0 /\ O <= 0 => t = <<>>
           /\ L > 0 /\ O <= 0 => t = << [kind |-> "LIMIT", ph |-> <<n + 1>>] >>
           /\ L <= 0 /\ O > 0 => t = << [kind |-> "OFFSET", ph |-> <<n + 1>>] >>
           /\ L > 0 /\ O > 0 => t = << [kind |-> "LIMIT", ph |-> <<n + 1>>],
                                       [kind |-> "OFFSET", ph |-> <<n + 2>> ] >>

\* ListGoals has run with a search, a limit and an offset: LIMIT $4 OFFSET $5.
C22_Witness ==
    /\ list.pc = "done" /\ list.stmts = 2 /\ list.err = "nil"
    /\ list.pagination.Limit > 0 /\ list.pagination.Offset > 0
    /\ Kinds(listQuery(list.filters, list.pagination).conditions) = <<"search">>
    /\ listQuery(list.filters, list.pagination).tail[2].ph = <<5>>

(***************************************************************************)
(* C23.  The text of the queries does not depend on the filter values:     *)
(* any filter and pagination values with the same criteria and clauses     *)
(* present give the same COUNT text and the same page text as the ones of  *)
(* the call; the search term is in the arguments only, as %term%.          *)
(***************************************************************************)
C23_QueryTextIndependentOfValues ==
    list.pc # "idle"
    => /\ \A f \in BuildFilters, p \in BuildPaginations :
             Presence(f, p) = Presence(list.filters, list.pagination)
             => /\ QueryText(countQuery(f)) = QueryText(countQuery(list.filters))
                /\ QueryText(listQuery(f, p))
                      = QueryText(listQuery(list.filters, list.pagination))
       /\ LET q == listQuery(list.filters, list.pagination)
          IN  \A i \in DOMAIN q.conditions :
                 /\ DOMAIN q.conditions[i] = {"kind", "ph"}
                 /\ q.conditions[i].kind = "search"
                    => \A k \in DOMAIN q.conditions[i].ph :
                          q.args[q.conditions[i].ph[k]].str
                             = <<"%">> \o list.filters.Query \o <<"%">>

\* ListGoals has run with a search term that holds a quote, both bounds, a
\* limit and an offset.
C23_Witness ==
    /\ list.pc = "done" /\ list.stmts = 2 /\ list.err = "nil"
    /\ list.filters.Query = <<"'", "b">>
    /\ ~list.filters.CreatedAfter.nil /\ ~list.filters.CreatedBefore.nil
    /\ list.pagination.Limit > 0 /\ list.pagination.Offset > 0
    /\ listQuery(list.filters, list.pagination).args[1].str = <<"%", "'", "b", "%">>

(***************************************************************************)
(* C24.  As claimed: ListGoals with a non-blank search term, and no limit  *)
(* or offset, returns exactly the goals that hold the term, ignoring case, *)
(* in the title, the clarity statement or the text of the success          *)
(* criteria, and that satisfy the date bounds.                             *)
(***************************************************************************)
C24_SearchIsContains ==
    LET Contains(hay, needle) ==
            \E i \in 1..(Len(hay) - Len(needle) + 1) :
               ToLower(SubSeq(hay, i, i + Len(needle) - 1)) = ToLower(needle)
        Selected(r) ==
            /\ \/ Contains(r.title, list.filters.Query)
               \/ Contains(r.clarity_statement, list.filters.Query)
               \/ Contains(JSONText(r.success_criteria), list.filters.Query)
            /\ list.filters.CreatedAfter.nil
               \/ r.created_at >= list.filters.CreatedAfter.t
            /\ list.filters.CreatedBefore.nil
               \/ r.created_at <= list.filters.CreatedBefore.t
    IN  Listed /\ TrimSpace(list.filters.Query) # <<>>
               /\ list.pagination = NoPagination
        => PageIds(list) = { r.id : r \in { x \in goals : Selected(x) } }

(***************************************************************************)
(* C25.  A create or update handler of goals, or the create handler of     *)
(* intents, that receives a payload with a required text empty or of white *)
(* space only answers 400, issues no statement and leaves the store as it  *)
(* is.  A call that reaches the repository has all required texts          *)
(* non-empty after trimming, hands over the trimmed texts, and on success  *)
(* the row stored holds the trimmed texts.                                 *)
(***************************************************************************)
C25_BlankRequiredTextRejected ==
    [][ /\ Returned({"handleCreate", "handleUpdate"})
           => LET p == last'.payload
                  blank == TrimSpace(p.Title) = <<>>
                           \/ TrimSpace(p.ClarityStatement) = <<>>
              IN  /\ blank => /\ last'.status = 400 /\ last'.stmts = 0
                              /\ goals' = goals /\ nextId' = nextId
                  /\ last'.stmts > 0
                     => /\ ~blank
                        /\ last'.input.Title = TrimSpace(p.Title)
                        /\ last'.input.ClarityStatement
                              = TrimSpace(p.ClarityStatement)
                  /\ last'.status \in {200, 201}
                     => \E r \in goals' :
                           /\ r.id = last'.id
                           /\ r.title = TrimSpace(p.Title)
                           /\ r.clarity_statement = TrimSpace(p.ClarityStatement)
        /\ IntentStep /\ ilast'.op = "handleCreate"
           => LET p == ilast'.payload
                  blank == \/ TrimSpace(p.Statement) = <<>>
                           \/ TrimSpace(p.Context) = <<>>
                           \/ TrimSpace(p.ExpectedOutcome) = <<>>
              IN  /\ blank => /\ ilast'.status = 400 /\ ilast'.stmts = 0
                              /\ intents' = intents
                  /\ ilast'.stmts > 0
                     => /\ ~blank
                        /\ ilast'.input.Statement = TrimSpace(p.Statement)
                        /\ ilast'.input.Context = TrimSpace(p.Context)
                        /\ ilast'.input.ExpectedOutcome
                              = TrimSpace(p.ExpectedOutcome)
                  /\ ilast'.status = 201
                     => \E r \in intents' :
                           /\ r.id = ilast'.intent.ID
                           /\ r.statement = TrimSpace(p.Statement)
                           /\ r.context = TrimSpace(p.Context)
                           /\ r.expected_outcome = TrimSpace(p.ExpectedOutcome)
      ]_vars

\* The goals update handler has answered 400 to a blank clarity statement
\* with a goal stored, and the intents create handler has stored the
\* trimmed texts of a padded payload.
C25_Witness ==
    /\ last.op = "handleUpdate" /\ last.status = 400
    /\ last.payload.ClarityStatement = <<>>
    /\ \E r \in goals : r.id = last.id /\ r.title = <<"a">>
    /\ ilast.op = "handleCreate" /\ ilast.status = 201
    /\ ilast.payload.Statement = <<"a", " ">>
    /\ \E r \in intents : r.statement = <<"a">> /\ r.context = <<"b">>

(***************************************************************************)
(* Vocabulary of the properties of the list handler.                       *)
(***************************************************************************)
\* The number a query value asks for: that of a numeral an int holds, and 0
\* for a value that is missing, blank, no numeral, or a numeral below 1 or
\* beyond the largest int (all of which select the default).
Asked(value) ==
    CASE value = <<"1">> -> 1
      [] value = <<"2">> -> 2
      [] value = <<"5">> -> 5
      [] value = <<"1", "0", "0">> -> 100
      [] value = <<"1", "0", "1">> -> 101
      [] value = <<"3", "2", "7", "6", "7">> -> 32767
      [] OTHER -> 0

\* The list handler has answered a request with a page.
Answered == hlist.op = "handleList" /\ hlist.status = 200

(***************************************************************************)
(* C26.  As claimed: the list handler takes page 1 when page is missing,   *)
(* no number or below 1, page size 20 when pageSize is missing, no number  *)
(* or below 1, and at most 100; it hands Limit = pageSize and              *)
(* Offset = (page - 1) * pageSize to the repository, and reports           *)
(* ceil(total / pageSize) pages, 0 when the total is 0.                    *)
(***************************************************************************)
C26_PaginationFromQueryValues ==
    hlist.op = "handleList"
    => LET page == IF Asked(hlist.page) >= 1 THEN Asked(hlist.page) ELSE 1
           size == IF Asked(hlist.pageSize) < 1 THEN 20
                   ELSE IF Asked(hlist.pageSize) > 100 THEN 100
                   ELSE Asked(hlist.pageSize)
       IN  /\ hlist.pagination.Limit = size
           /\ hlist.pagination.Offset = (page - 1) * size
           /\ Answered
              => /\ hlist.resp.Page = page /\ hlist.resp.PageSize = size
                 /\ hlist.resp.TotalItems = Cardinality(goals)
                 /\ hlist.resp.TotalPages * size >= Cardinality(goals)
                 /\ (hlist.resp.TotalPages - 1) * size < Cardinality(goals)
                 /\ Cardinality(goals) = 0 => hlist.resp.TotalPages = 0

(***************************************************************************)
(* C27.  As claimed: for every page and pageSize value the pagination the  *)
(* list handler hands to the repository has 1 <= Limit <= 100 and          *)
(* Offset >= 0.                                                            *)
(***************************************************************************)
C27_PaginationInRange ==
    hlist.op = "handleList"
    => /\ 1 <= hlist.pagination.Limit /\ hlist.pagination.Limit <= 100
       /\ hlist.pagination.Offset >= 0

(***************************************************************************)
(* Vocabulary of the properties of concurrent callers.  Every call is one  *)
(* statement, so concurrent callers are the interleavings of the calls.    *)
(***************************************************************************)
\* The goal id was created and its row has been deleted: identifiers are
\* handed out in order and never a second time.
Deleted(id) == id < nextId /\ id \notin IdsOf(goals)

\* The step is a call of the repository function op on the goal id that
\* reaches the database.
CallOn(op, id) ==
    clock' = clock /\ last'.op = op /\ last'.id = id /\ last'.conn = "ok"

(***************************************************************************)
(* C28.  In every interleaving of DeleteGoal and UpdateGoal calls on an    *)
(* identifier, a call that reaches the database succeeds exactly when the  *)
(* row exists as its statement runs; a successful DeleteGoal removes the   *)
(* row, so of any number of DeleteGoal calls on an existing row exactly    *)
(* one succeeds and the others, and every UpdateGoal after it, return      *)
(* sql.ErrNoRows; a deleted row never reappears.                           *)
(***************************************************************************)
C28_DeleteUpdateAtomic ==
    [][\A id \in Ids :
          /\ Deleted(id) => Deleted(id)'
          /\ CallOn("DeleteGoal", id)
             => IF id \in IdsOf(goals)
                THEN last'.err = "nil" /\ Deleted(id)'
                ELSE last'.err = "ErrNoRows" /\ goals' = goals
          /\ CallOn("UpdateGoal", id)
             => IF id \in IdsOf(goals)
                THEN last'.err = "nil" /\ id \in IdsOf(goals')
                ELSE last'.err = "ErrNoRows" /\ goals' = goals]_vars

\* An UpdateGoal on a goal that was created and then deleted has returned
\* sql.ErrNoRows.
C28_Witness ==
    /\ last.op = "UpdateGoal" /\ last.conn = "ok" /\ last.err = "ErrNoRows"
    /\ Deleted(last.id)

(***************************************************************************)
(* Vocabulary of the frame properties.                                     *)
(***************************************************************************)
\* The rows of other identifiers than id.
Others(rows, id) == { r \in rows : r.id # id }

(***************************************************************************)
(* C29.  UpdateGoal and DeleteGoal change no row of another identifier,    *)
(* GetGoal and ListGoals change no row, a CreateGoal that succeeds adds    *)
(* exactly one row, of an identifier no row had, and changes no other row, *)
(* and a CreateGoal that fails changes no row and returns the zero Goal.   *)
(***************************************************************************)
C29_FrameOfCalls ==
    [][/\ \A id \in FrameIds, conn \in ConnStates :
             /\ DeleteGoal(id, conn) => Others(goals', id) = Others(goals, id)
             /\ GetGoal(id, conn) => goals' = goals
             /\ \A input \in GoalInputs :
                   UpdateGoal(id, input, conn)
                   => Others(goals', id) = Others(goals, id)
       /\ \A conn \in ConnStates :
             /\ ListGoalsPage(conn) => goals' = goals
             /\ \A filters \in CallFilters :
                   ListGoalsCount(filters, CallPagination, conn)
                   => goals' = goals
             /\ \A input \in GoalInputs :
                   CreateGoal(input, conn)
                   => IF last'.err = "nil"
                      THEN /\ goals \subseteq goals'
                           /\ Cardinality(goals' \ goals) = 1
                           /\ IdsOf(goals' \ goals) = {last'.goal.ID}
                           /\ last'.goal.ID \notin IdsOf(goals)
                      ELSE goals' = goals /\ last'.goal = ZeroGoal]_vars

\* A DeleteGoal has removed one goal of a table that holds others.
C29_Witness ==
    /\ last.op = "DeleteGoal" /\ last.err = "nil"
    /\ last.id \notin IdsOf(goals)
    /\ Cardinality(goals) >= 2

(***************************************************************************)
(* Vocabulary of the properties of the two timestamps.                     *)
(***************************************************************************)
\* The step is an UpdateGoal of the goal id, by a caller or by the update
\* handler, that succeeded.
UpdatedNow(id) ==
    /\ clock' = clock
    /\ last'.op \in {"UpdateGoal", "handleUpdate"}
    /\ last'.id = id /\ last'.err = "nil" /\ last'.status # 400

\* The call before the step was the CreateGoal of the goal id, which read
\* the clock value it returned as CreatedAt.
JustCreated(id) ==
    last.op = "CreateGoal" /\ last.err = "nil" /\ last.id = id

(***************************************************************************)
(* C30.  As claimed: every stored goal has updated_at >= created_at, and   *)
(* the two are equal iff no UpdateGoal of the goal succeeded at a later    *)
(* clock value than its CreateGoal (stated for the first UpdateGoal after  *)
(* the CreateGoal).                                                        *)
(***************************************************************************)
C30_EqualIffNeverUpdatedLater ==
    [][\A r \in goals' :
          /\ r.updated_at >= r.created_at
          /\ JustCreated(r.id) /\ UpdatedNow(r.id)
             => (r.updated_at = r.created_at <=> ~(clock > last.goal.CreatedAt))]_vars

(***************************************************************************)
(* C30, amended.  Every stored goal has updated_at >= created_at; the two  *)
(* are equal when the goal is created, and an UpdateGoal leaves them equal *)
(* iff it reads a clock value in the microsecond of created_at: they are   *)
(* equal iff no UpdateGoal of the goal succeeded in a later microsecond.   *)
(***************************************************************************)
C30_EqualIffNeverUpdatedInLaterMicrosecond ==
    [][/\ \A r \in goals' :
             /\ r.updated_at >= r.created_at
             /\ r.id \notin IdsOf(goals) => r.updated_at = r.created_at
       /\ \A r \in goals : \A r2 \in RowsWithID(goals', r.id) :
             r2.updated_at > r2.created_at
             <=> \/ r.updated_at > r.created_at
                 \/ UpdatedNow(r.id) /\ StoreTimestamp(clock) > r.created_at]_vars

\* An UpdateGoal at a later clock value than the CreateGoal, in the same
\* microsecond, has left updated_at equal to created_at.
C30_Witness ==
    /\ last.op = "UpdateGoal" /\ last.err = "nil"
    /\ clock > StoreTimestamp(clock)
    /\ \E r \in RowsWithID(goals, last.id) :
          r.updated_at = r.created_at /\ r.created_at = NanosPerMicro
====
